---- MODULE Spec2Model ----
(***************************************************************************)
(* Retrieval core of auto_reviewer: the FAISS-backed VectorDatabase, the   *)
(* MultiAgentVectorDB registry, RAGSystem context assembly and the         *)
(* RAGContext formatter.                                                   *)
(*                                                                         *)
(* Floats are fixed-point integers in thousandths (FP); text is a sequence *)
(* of one-character strings; Python's None / Optional is a sequence of     *)
(* length 0 or 1.                                                          *)
(***************************************************************************)
EXTENDS Integers, Sequences, FiniteSets, TLC

VARIABLES
    db,          \* a VectorDatabase used through its own API
    dbRes,       \* outcome of the last call on db
    main_db,     \* MultiAgentVectorDB.main_db (Optional)
    databases,   \* MultiAgentVectorDB.databases: agent name -> VectorDatabase
    regRes,      \* outcome of the last registry / RAGSystem call
    faissTies,   \* how the linked FAISS build orders equal scores
    fctx,        \* a RAGContext handed to the formatter
    fcall,       \* arguments of the last format_context_for_agent call
    fout,        \* its return value (Optional)
    disk,        \* the directory that save writes and load reads (Optional)
    rcv,         \* a second VectorDatabase, the one load is called on
    run,         \* main thread of a review run: create_rag_system, then review_document
    kbFault,     \* what goes wrong while each agent's knowledge base is built
    tasks,       \* the futures of the thread pool of _review_with_agent
    searched,    \* whether an index of the run's registry has been searched
    crew,        \* ReviewCrew: its agents, and the lists review_document builds
    llm,         \* the ways a call of the LLM backend can end in this run
    cacheFiles,  \* the embedding cache files of cache_dir, by file name (Optional)
    cacheRes     \* outcome of the last create_embeddings call

storeVars == <<disk, rcv>>
runVars == <<run, kbFault, tasks, searched, crew, llm>>
cacheVars == <<cacheFiles, cacheRes>>
vars == <<db, dbRes, main_db, databases, regRes, faissTies, fctx, fcall, fout,
          disk, rcv, run, kbFault, tasks, searched, crew, llm, cacheFiles, cacheRes>>

(***************************************************************************)
(* Bounds of the model.                                                    *)
(***************************************************************************)
MaxRetrieved == 4    \* longest retrieved_chunks list given to the formatter
MaxKnowledge == 3    \* longest agent_knowledge list given to the formatter
MaxIndex == 3        \* most vectors in the stand-alone VectorDatabase
MaxBatch == 2        \* most chunks in one add_chunks call
MaxK == 3            \* largest k / top_k asked for
MaxMain == 2         \* most chunks in the main document
MaxKB == 1           \* most chunks in one agent knowledge base
MaxStored == 2       \* most vectors in a database that is saved or loaded into
MaxWorkers == 2      \* largest max_workers of review_document
MaxCtxBatch == 2     \* longest chunk list given to batch_get_context

(***************************************************************************)
(* Generic helpers.                                                        *)
(***************************************************************************)
Min(a, b) == IF a <= b THEN a ELSE b
Max(a, b) == IF a >= b THEN a ELSE b
Abs(a) == IF a < 0 THEN 0 - a ELSE a

RECURSIVE Rep(_, _)
Rep(ch, n) == IF n <= 0 THEN <<>> ELSE <<ch>> \o Rep(ch, n - 1)

\* Python: sep.join(parts)
RECURSIVE Join(_, _)
Join(sep, parts) ==
    IF parts = <<>> THEN <<>>
    ELSE IF Len(parts) = 1 THEN parts[1]
    ELSE parts[1] \o sep \o Join(sep, Tail(parts))

\* Python: s[:n] for n >= 0
Take(s, n) == SubSeq(s, 1, Min(n, Len(s)))

IsSuffix(p, s) == Len(p) <= Len(s) /\ SubSeq(s, Len(s) - Len(p) + 1, Len(s)) = p
Occurs(p, s) == \E i \in 1..(Len(s) - Len(p) + 1) : SubSeq(s, i, i + Len(p) - 1) = p

(***************************************************************************)
(* Text rendering of numbers: f"{similarity:.2f}".                         *)
(***************************************************************************)
FP == 1000

DigitChar(d) == <<"0", "1", "2", "3", "4", "5", "6", "7", "8", "9">>[d + 1]

RECURSIVE NatChars(_)
NatChars(n) == IF n < 10 THEN <<DigitChar(n)>> ELSE NatChars(n \div 10) \o <<DigitChar(n % 10)>>

\* thousandths -> hundredths, round half to even
RoundHundredths(m) ==
    LET q == m \div 10
        r == m % 10
    IN  IF r > 5 \/ (r = 5 /\ q % 2 = 1) THEN q + 1 ELSE q

Format2f(s) ==
    LET h == RoundHundredths(Abs(s))
    IN  (IF s < 0 THEN <<"-">> ELSE <<>>)
        \o NatChars(h \div 100) \o <<".">>
        \o <<DigitChar((h % 100) \div 10), DigitChar(h % 10)>>

(***************************************************************************)
(* RAGContext.format_context_for_agent                                     *)
(***************************************************************************)
NL == <<"\n">>
RubricHeader == <<"G","L","O","B","A","L"," ","R","U","B","R","I","C",":","\n">>
DocContextHeader == <<"R","E","L","E","V","A","N","T"," ","D","O","C","U","M","E","N","T"," ","C","O","N","T","E","X","T",":">>
SimPrefix == <<"[","S","i","m","i","l","a","r","i","t","y",":"," ">>
SimSuffix == <<"]"," ">>
KBHeaderPrefix == <<"K","N","O","W","L","E","D","G","E"," ","B","A","S","E"," ","(","f","o","r"," ">>
KBHeaderSuffix == <<")",":">>
TargetHeaderPrefix == <<"P","A","R","A","G","R","A","P","H"," ","T","O"," ","R","E","V","I","E","W"," ","(","I","D",":"," ">>
TargetHeaderSuffix == <<")",":">>
TruncationNotice == <<"\n","[",".",".",".","C","O","N","T","E","X","T"," ","T","R","U","N","C","A","T","E","D",".",".",".","]","\n">>
TruncationBuffer == 50
MainShown == 3
KnowledgeShown == 2

\* f"[Similarity: {similarity:.2f}] {chunk.text}"
MatchLine(m) == SimPrefix \o Format2f(m.sim) \o SimSuffix \o m.chunk.text

MatchLines(ms) == [i \in 1..Len(ms) |-> MatchLine(ms[i])]

\* variant of context_parts without the [:3] and [:2] slices
ContextPartsShowsAll(ctx, agent_name) ==
    (IF ctx.global_rubric # <<>> /\ ctx.global_rubric[1] # <<>>
        THEN <<RubricHeader \o ctx.global_rubric[1] \o NL>> ELSE <<>>)
    \o (IF ctx.retrieved_chunks # <<>>
        THEN <<DocContextHeader>> \o MatchLines(ctx.retrieved_chunks) \o << <<>> >>
        ELSE <<>>)
    \o (IF ctx.agent_knowledge # <<>>
        THEN <<KBHeaderPrefix \o agent_name \o KBHeaderSuffix>>
             \o MatchLines(ctx.agent_knowledge) \o << <<>> >>
        ELSE <<>>)
    \o <<TargetHeaderPrefix \o ctx.target_chunk.paragraph_id \o TargetHeaderSuffix>>
    \o <<ctx.target_chunk.text>>

\* the list context_parts as built by lines 50-72
ContextParts(ctx, agent_name) ==
    (IF ctx.global_rubric # <<>> /\ ctx.global_rubric[1] # <<>>
        THEN <<RubricHeader \o ctx.global_rubric[1] \o NL>> ELSE <<>>)
    \o (IF ctx.retrieved_chunks # <<>>
        THEN <<DocContextHeader>> \o MatchLines(Take(ctx.retrieved_chunks, MainShown)) \o << <<>> >>
        ELSE <<>>)
    \o (IF ctx.agent_knowledge # <<>>
        THEN <<KBHeaderPrefix \o agent_name \o KBHeaderSuffix>>
             \o MatchLines(Take(ctx.agent_knowledge, KnowledgeShown)) \o << <<>> >>
        ELSE <<>>)
    \o <<TargetHeaderPrefix \o ctx.target_chunk.paragraph_id \o TargetHeaderSuffix>>
    \o <<ctx.target_chunk.text>>

\* full_context
FullContext(ctx, agent_name) == Join(NL, ContextParts(ctx, agent_name))

\* target_text of the truncation branch
TargetText(ctx) ==
    NL \o TargetHeaderPrefix \o ctx.target_chunk.paragraph_id \o TargetHeaderSuffix
    \o NL \o ctx.target_chunk.text

\* variants of the truncation branch used to test the properties below
FormatHardCut(ctx, agent_name, max_context_length) ==
    Take(FullContext(ctx, agent_name), Max(max_context_length, 0))

FormatNoTruncation(ctx, agent_name, max_context_length) == FullContext(ctx, agent_name)

FormatNoNotice(ctx, agent_name, max_context_length) ==
    LET full_context == FullContext(ctx, agent_name)
        target_text == TargetText(ctx)
        available_length == max_context_length - Len(target_text) - TruncationBuffer
    IN  IF Len(full_context) > max_context_length
        THEN IF available_length > 0
             THEN Take(full_context, available_length) \o target_text
             ELSE target_text
        ELSE full_context

FormatKeepsToLimit(ctx, agent_name, max_context_length) ==
    LET full_context == FullContext(ctx, agent_name)
        target_text == TargetText(ctx)
        available_length == max_context_length - TruncationBuffer
    IN  IF Len(full_context) > max_context_length
        THEN IF available_length > 0
             THEN Take(full_context, available_length) \o TruncationNotice \o target_text
             ELSE target_text
        ELSE full_context

FormatContextForAgent(ctx, agent_name, max_context_length) ==
    LET full_context == FullContext(ctx, agent_name)
        target_text == TargetText(ctx)
        available_length == max_context_length - Len(target_text) - TruncationBuffer
    IN  IF Len(full_context) > max_context_length
        THEN IF available_length > 0
             THEN Take(full_context, available_length) \o TruncationNotice \o target_text
             ELSE target_text
        ELSE full_context

(***************************************************************************)
(* Fixed-point arithmetic standing in for numpy / FAISS float32.           *)
(***************************************************************************)
RECURSIVE IsqrtFrom(_, _)
IsqrtFrom(n, r) ==
    LET r2 == (r + n \div r) \div 2
    IN  IF r2 >= r THEN r ELSE IsqrtFrom(n, r2)

\* floor of the square root
Isqrt(n) == IF n <= 0 THEN 0 ELSE IsqrtFrom(n, n)

\* square root rounded to nearest
SqrtNearest(n) ==
    LET r == Isqrt(n)
    IN  IF n - r * r > r THEN r + 1 ELSE r

\* a / b rounded to nearest, b > 0
RoundDiv(a, b) ==
    IF a >= 0 THEN (2 * a + b) \div (2 * b)
    ELSE 0 - ((2 * (0 - a) + b) \div (2 * b))

RECURSIVE SumSeq(_)
SumSeq(s) == IF s = <<>> THEN 0 ELSE Head(s) + SumSeq(Tail(s))

\* np.linalg.norm of one row, in FP units
Norm(v) == SqrtNearest(SumSeq([i \in 1..Len(v) |-> v[i] * v[i]]))

(***************************************************************************)
(* Python exceptions: the class that `except` matches on, and the message. *)
(***************************************************************************)
NoErr == <<>>
ValueError(msg) == <<[kind |-> "ValueError", msg |-> msg]>>
ErrCountMismatch == ValueError("Number of chunks must match number of embeddings")
ErrDimMismatch == ValueError("Embedding dimension mismatch")
ErrUnsupportedIndex == ValueError("Unsupported index type")
ErrEmptyChunks == ValueError("Cannot create database from empty chunks")
ErrMainNotInit == ValueError("Main database not initialized")
ErrNoAgentDb == ValueError("No database found for agent")
ErrEmbedding == <<[kind |-> "RuntimeError", msg |-> "embedding provider failed"]>>

(***************************************************************************)
(* VectorDatabase                                                          *)
(***************************************************************************)
IndexTypes == {"IndexFlatIP", "IndexFlatL2"}

\* VectorDatabase.__init__ with a supported index type
NewVectorDatabase(embedding_dim, index_type) ==
    [embedding_dim |-> embedding_dim, index_type |-> index_type,
     index |-> <<>>, chunks |-> <<>>, chunk_metadata |-> <<>>]

\* variant of the row normalization that stores the row as given
NormalizeRowSkipped(v) == [nan |-> FALSE, v |-> v]

\* one row of `embeddings / norms`: 0/0 is NaN in every component
NormalizeRow(v) ==
    LET norm == Norm(v)
    IN  IF norm = 0 THEN [nan |-> TRUE, v |-> v]
        ELSE [nan |-> FALSE, v |-> [i \in 1..Len(v) |-> RoundDiv(v[i] * FP, norm)]]

RawRow(v) == [nan |-> FALSE, v |-> v]

ChunkMetadata(chunk) ==
    [paragraph_id |-> chunk.paragraph_id, text_length |-> Len(chunk.text)]

\* add_chunks: the database after the call and the exception raised, if any.
\* embeddings is [rows, width]: an array of shape (Len(rows), width).
AddChunksBroken(d, chunks, embeddings) ==
    LET stored == [i \in 1..Len(embeddings.rows) |->
                      IF d.index_type = "IndexFlatIP"
                      THEN NormalizeRow(embeddings.rows[i]) ELSE RawRow(embeddings.rows[i])]
        grown == [d EXCEPT !.chunks = @ \o chunks,
                           !.chunk_metadata = @ \o [i \in 1..Len(chunks) |-> ChunkMetadata(chunks[i])]]
    IN  IF Len(chunks) # Len(embeddings.rows)
        THEN [db |-> grown, err |-> ErrCountMismatch]
        ELSE IF embeddings.width # d.embedding_dim
        THEN [db |-> grown, err |-> ErrDimMismatch]
        ELSE [db |-> [grown EXCEPT !.index = @ \o stored], err |-> NoErr]

AddChunks(d, chunks, embeddings) ==
    IF Len(chunks) # Len(embeddings.rows)
    THEN [db |-> d, err |-> ErrCountMismatch]
    ELSE IF embeddings.width # d.embedding_dim
    THEN [db |-> d, err |-> ErrDimMismatch]
    ELSE LET stored == [i \in 1..Len(embeddings.rows) |->
                           IF d.index_type = "IndexFlatIP"
                           THEN NormalizeRow(embeddings.rows[i])
                           ELSE RawRow(embeddings.rows[i])]
         IN  [db |-> [d EXCEPT
                        !.index = @ \o stored,
                        !.chunks = @ \o chunks,
                        !.chunk_metadata = @ \o [i \in 1..Len(chunks) |-> ChunkMetadata(chunks[i])]],
              err |-> NoErr]

\* the query as handed to index.search: normalized under IndexFlatIP when norm > 0
NormalizeQuery(index_type, q) ==
    LET norm == Norm(q)
    IN  IF index_type = "IndexFlatIP" /\ norm > 0
        THEN [i \in 1..Len(q) |-> RoundDiv(q[i] * FP, norm)]
        ELSE q

InnerProduct(a, b) == RoundDiv(SumSeq([i \in 1..Len(a) |-> a[i] * b[i]]), FP)
SquaredL2(a, b) == RoundDiv(SumSeq([i \in 1..Len(a) |-> (a[i] - b[i]) * (a[i] - b[i])]), FP)

\* FAISS flat index: what index.search(q, k) returns, as k (similarity, idx) pairs.
\* IndexFlatIP lists the largest inner products first, IndexFlatL2 the smallest
\* squared distances first.  A NaN row never wins a comparison, so it is never
\* listed; missing results are padded with idx -1.  Which of two equal scores
\* comes first is the library's business (faissTies).
FltMax == 2000000000
TieOrders == {"low_id_first", "high_id_first"}

FaissScore(index_type, row, q) ==
    IF index_type = "IndexFlatIP" THEN InnerProduct(row.v, q) ELSE SquaredL2(row.v, q)

FaissSearch(index_type, index, q, k, ties) ==
    LET valid == {i \in 1..Len(index) : ~index[i].nan}
        sc == [i \in 1..Len(index) |-> FaissScore(index_type, index[i], q)]
        closer(i, j) == IF index_type = "IndexFlatIP" THEN sc[i] > sc[j] ELSE sc[i] < sc[j]
        before(i, j) == \/ closer(i, j)
                        \/ /\ sc[i] = sc[j]
                           /\ IF ties = "low_id_first" THEN i < j ELSE i > j
        rank == [i \in valid |-> Cardinality({j \in valid : before(j, i)}) + 1]
        found == Cardinality(valid)
        at == [r \in 1..found |-> CHOOSE i \in valid : rank[i] = r]
        pad == [idx |-> 0 - 1,
                sim |-> IF index_type = "IndexFlatIP" THEN 0 - FltMax ELSE FltMax]
    IN  [r \in 1..k |-> IF r <= found
                        THEN [idx |-> at[r] - 1, sim |-> sc[at[r]]]
                        ELSE pad]

\* Python list indexing, negative positions counting from the end
PyIndex(s, i) == IF i < 0 THEN s[Len(s) + i + 1] ELSE s[i + 1]

\* VectorDatabase.search for k >= 1 (what index.search does with k <= 0
\* depends on the FAISS release and is left out)
Search(d, query_embedding, k, similarity_threshold, ties) ==
    IF Len(d.index) = 0 THEN <<>>
    ELSE LET q == NormalizeQuery(d.index_type, query_embedding)
             kk == Min(k, Len(d.index))
             hits == FaissSearch(d.index_type, d.index, q, kk, ties)
             kept == SelectSeq(hits, LAMBDA h : h.sim >= similarity_threshold)
         IN  [i \in 1..Len(kept) |->
                 [chunk |-> PyIndex(d.chunks, kept[i].idx), sim |-> kept[i].sim]]

(***************************************************************************)
(* VectorDatabase.save / VectorDatabase.load.  A saved directory holds     *)
(* three files, each Optional here: index.faiss, chunks.pkl, metadata.json.*)
(***************************************************************************)
FileNotFoundError(msg) == <<[kind |-> "FileNotFoundError", msg |-> msg]>>
ErrNoPath == FileNotFoundError("Database path does not exist")
ErrNoMetadataFile == FileNotFoundError("metadata.json")
ErrNoChunksFile == FileNotFoundError("chunks.pkl")
ErrIndexTypeMismatch == ValueError("Index type mismatch")
ErrFaissRead == <<[kind |-> "RuntimeError", msg |-> "could not open index.faiss for reading"]>>

\* faiss.write_index of a flat index: the header (d, ntotal), then the stored
\* float32 values in one run, row after row; a NaN is written as a NaN
FloatCode(row, i) == [nan |-> row.nan, x |-> IF row.nan THEN 0 ELSE row.v[i]]

WriteIndex(d) ==
    [d |-> d.embedding_dim, ntotal |-> Len(d.index),
     codes |-> [c \in 1..(Len(d.index) * d.embedding_dim) |->
                   FloatCode(d.index[((c - 1) \div d.embedding_dim) + 1],
                             ((c - 1) % d.embedding_dim) + 1)]]

\* faiss.read_index: the run of values cut back into ntotal rows of d values
ReadRow(f, r) ==
    LET cs == SubSeq(f.codes, (r - 1) * f.d + 1, r * f.d)
    IN  [nan |-> \E i \in 1..f.d : cs[i].nan, v |-> [i \in 1..f.d |-> cs[i].x]]

ReadIndexReversed(f) == [r \in 1..f.ntotal |-> ReadRow(f, f.ntotal + 1 - r)]

ReadIndex(f) == [r \in 1..f.ntotal |-> ReadRow(f, r)]

\* pickle.dump / pickle.load of the list of DocumentChunk objects: each object
\* is written as its field values in declaration order and rebuilt from them
PickleDump(chunks) == [i \in 1..Len(chunks) |-> <<chunks[i].paragraph_id, chunks[i].text>>]
PickleLoad(f) == [i \in 1..Len(f) |-> [paragraph_id |-> f[i][1], text |-> f[i][2]]]

\* json.dump / json.load of the metadata dictionary: JSON strings and numbers
JsonStr(s) == [t |-> "string", s |-> s, n |-> 0]
JsonNum(n) == [t |-> "number", s |-> <<>>, n |-> n]

JsonDump(d) ==
    [embedding_dim |-> JsonNum(d.embedding_dim),
     index_type |-> JsonStr(d.index_type),
     chunk_count |-> JsonNum(Len(d.chunks)),
     chunk_metadata |-> [i \in 1..Len(d.chunk_metadata) |->
                            [paragraph_id |-> JsonStr(d.chunk_metadata[i].paragraph_id),
                             text_length |-> JsonNum(d.chunk_metadata[i].text_length)]]]

JsonLoad(j) ==
    [embedding_dim |-> j.embedding_dim.n,
     index_type |-> j.index_type.s,
     chunk_count |-> j.chunk_count.n,
     chunk_metadata |-> [i \in 1..Len(j.chunk_metadata) |->
                            [paragraph_id |-> j.chunk_metadata[i].paragraph_id.s,
                             text_length |-> j.chunk_metadata[i].text_length.n]]]

\* save(path): the directory after the call; the three files are (over)written
Save(d) ==
    [index_faiss |-> <<WriteIndex(d)>>,
     chunks_pkl |-> <<PickleDump(d.chunks)>>,
     metadata_json |-> <<JsonDump(d)>>]

\* load(path): the instance after the call and the exception raised, if any.
\* dir is <<>> when the path does not exist.
LoadValidatesLate(d, dir) ==
    IF dir = <<>> \/ dir[1].metadata_json = <<>> \/ dir[1].index_faiss = <<>>
       \/ dir[1].chunks_pkl = <<>>
    THEN [db |-> d, err |-> ErrNoPath]
    ELSE LET metadata == JsonLoad(dir[1].metadata_json[1])
             read == [d EXCEPT !.index = ReadIndex(dir[1].index_faiss[1]),
                               !.chunks = PickleLoad(dir[1].chunks_pkl[1]),
                               !.chunk_metadata = metadata.chunk_metadata]
         IN  IF metadata.embedding_dim # d.embedding_dim
             THEN [db |-> read, err |-> ErrDimMismatch]
             ELSE IF metadata.index_type # d.index_type
             THEN [db |-> read, err |-> ErrIndexTypeMismatch]
             ELSE [db |-> read, err |-> NoErr]

Load(d, dir) ==
    IF dir = <<>> THEN [db |-> d, err |-> ErrNoPath]
    ELSE IF dir[1].metadata_json = <<>> THEN [db |-> d, err |-> ErrNoMetadataFile]
    ELSE LET metadata == JsonLoad(dir[1].metadata_json[1])
         IN  IF metadata.embedding_dim # d.embedding_dim
             THEN [db |-> d, err |-> ErrDimMismatch]
             ELSE IF metadata.index_type # d.index_type
             THEN [db |-> d, err |-> ErrIndexTypeMismatch]
             ELSE IF dir[1].index_faiss = <<>>
             THEN [db |-> d, err |-> ErrFaissRead]
             ELSE IF dir[1].chunks_pkl = <<>>
             THEN [db |-> [d EXCEPT !.index = ReadIndex(dir[1].index_faiss[1])],
                   err |-> ErrNoChunksFile]
             ELSE [db |-> [d EXCEPT !.index = ReadIndex(dir[1].index_faiss[1]),
                                    !.chunks = PickleLoad(dir[1].chunks_pkl[1]),
                                    !.chunk_metadata = metadata.chunk_metadata],
                   err |-> NoErr]

(***************************************************************************)
(* MultiAgentVectorDB                                                      *)
(***************************************************************************)
\* VectorDatabase.create_from_chunks with the default index type
CreateFromChunks(chunks, embeddings) ==
    IF Len(chunks) = 0 THEN [db |-> <<>>, err |-> ErrEmptyChunks]
    ELSE LET r == AddChunks(NewVectorDatabase(embeddings.width, "IndexFlatIP"),
                            chunks, embeddings)
         IN  IF r.err # NoErr THEN [db |-> <<>>, err |-> r.err]
             ELSE [db |-> <<r.db>>, err |-> NoErr]

\* create_main_database: main_db after the call and the exception raised, if any
MainDatabaseKeptIfPresent(m, chunks, embeddings) ==
    LET r == CreateFromChunks(chunks, embeddings)
    IN  IF r.err # NoErr THEN [main_db |-> m, err |-> r.err]
        ELSE [main_db |-> IF m # <<>> THEN m ELSE r.db, err |-> NoErr]

MainDatabaseCreated(m, chunks, embeddings) ==
    LET r == CreateFromChunks(chunks, embeddings)
    IN  IF r.err # NoErr THEN [main_db |-> m, err |-> r.err]
        ELSE [main_db |-> r.db, err |-> NoErr]

\* create_agent_database: the name -> index mapping after the call and the
\* exception raised, if any
AgentDatabaseKeptIfPresent(dbs, agent_name, kb_chunks, kb_embeddings) ==
    LET r == CreateFromChunks(kb_chunks, kb_embeddings)
    IN  IF Len(kb_chunks) > 0
        THEN IF r.err # NoErr THEN [databases |-> dbs, err |-> r.err]
             ELSE [databases |-> [a \in DOMAIN dbs \cup {agent_name} |->
                                     IF a \in DOMAIN dbs THEN dbs[a] ELSE r.db[1]],
                   err |-> NoErr]
        ELSE [databases |-> dbs, err |-> NoErr]

AgentDatabaseCreated(dbs, agent_name, kb_chunks, kb_embeddings) ==
    LET r == CreateFromChunks(kb_chunks, kb_embeddings)
    IN  IF Len(kb_chunks) > 0
        THEN IF r.err # NoErr THEN [databases |-> dbs, err |-> r.err]
             ELSE [databases |-> [a \in DOMAIN dbs \cup {agent_name} |->
                                     IF a = agent_name THEN r.db[1] ELSE dbs[a]],
                   err |-> NoErr]
        ELSE [databases |-> dbs, err |-> NoErr]

\* A returned VectorDatabase is a reference to one of the registry's objects.
MainRef == [slot |-> "main", name |-> <<>>]
AgentRef(name) == [slot |-> "agent", name |-> <<name>>]

Deref(m, dbs, ref) == IF ref.slot = "main" THEN m[1] ELSE dbs[ref.name[1]]

\* get_database(agent_name): agent_name is <<>> for None, <<name>> otherwise
GetDatabaseFallback(m, dbs, agent_name) ==
    IF agent_name = <<>> \/ agent_name[1] \notin DOMAIN dbs
    THEN IF m = <<>> THEN [ref |-> <<>>, err |-> ErrMainNotInit]
         ELSE [ref |-> <<MainRef>>, err |-> NoErr]
    ELSE [ref |-> <<AgentRef(agent_name[1])>>, err |-> NoErr]

GetDatabase(m, dbs, agent_name) ==
    IF agent_name = <<>>
    THEN IF m = <<>> THEN [ref |-> <<>>, err |-> ErrMainNotInit]
         ELSE [ref |-> <<MainRef>>, err |-> NoErr]
    ELSE IF agent_name[1] \notin DOMAIN dbs
         THEN [ref |-> <<>>, err |-> ErrNoAgentDb]
         ELSE [ref |-> <<AgentRef(agent_name[1])>>, err |-> NoErr]

(***************************************************************************)
(* Embedding provider: a fixed map from text to a vector of width Dim.     *)
(* The texts used here are shorter than EmbeddingConfig.max_length, so the *)
(* provider's truncation of long texts never applies.                      *)
(***************************************************************************)
Dim == 2

EmbedText(text) ==
    IF text = <<>> THEN <<0, 0>>
    ELSE CASE text[1] = "a" -> <<1000, 0>>
           [] text[1] = "b" -> <<1000, 0>>
           [] text[1] = "c" -> <<0, 1000>>
           [] text[1] = "d" -> <<900, 100>>
           [] text[1] = "k" -> <<1000, 1000>>
           [] text[1] = "l" -> <<900, 0 - 100>>
           [] OTHER -> <<0 - 1000, 0>>

\* EmbeddingModel.embed_chunks
EmbedChunks(chunks) ==
    [rows |-> [i \in 1..Len(chunks) |-> EmbedText(chunks[i].text)], width |-> Dim]

(***************************************************************************)
(* Embedding cache: create_embeddings with save_cache and load_cache.      *)
(***************************************************************************)
\* EmbeddingConfig.model values; both lead to the same cache file name
EmbedModels == {<<"m", "/", "x">>, <<"m", "_", "x">>}

\* what the model named by the identifier makes of a text
EmbedTextBy(model, text) ==
    LET v == EmbedText(text)
    IN  IF \E i \in 1..Len(model) : model[i] = "/" THEN v ELSE <<v[2], v[1]>>

\* f"embeddings_{config.model.replace('/', '_')}.pkl"
CacheFileName(model) ==
    <<"e", "m", "b", "e", "d", "d", "i", "n", "g", "s", "_">>
    \o [i \in 1..Len(model) |-> IF model[i] = "/" THEN "_" ELSE model[i]]
    \o <<".", "p", "k", "l">>

CacheFileNames == {CacheFileName(model) : model \in EmbedModels}

\* hash(text) in an interpreter whose string hashing is seeded with seed: the
\* value depends on the seed, the empty string hashes to 0, and the range is
\* finite, so that two texts can share a value
HashSeeds == {0, 1}
PyHash(seed, text) ==
    IF text = <<>> THEN 0
    ELSE IF seed = 0
         THEN CASE text[1] = "a" -> 11
                [] text[1] = "c" -> 12
                [] OTHER -> 11
         ELSE CASE text[1] = "a" -> 12
                [] text[1] = "c" -> 11
                [] OTHER -> 13

ErrKeyError == <<[kind |-> "KeyError", msg |-> "hash_to_embedding"]>>
UnreadableCache == [ok |-> FALSE]

\* EmbeddingModel.save_cache: writes model, texts, embeddings and the hashes
\* of the texts; a failing write is logged and leaves the file as it was
SaveCache(files, model, texts, embeddings, seed, write_ok) ==
    IF write_ok
    THEN [files EXCEPT ![CacheFileName(model)] =
              <<[ok |-> TRUE, model |-> model, texts |-> texts, embeddings |-> embeddings,
                 text_hashes |-> [i \in 1..Len(texts) |-> PyHash(seed, texts[i])]]>>]
    ELSE files

\* EmbeddingModel.load_cache: the cache data (Optional)
LoadCache(files, model) ==
    LET file == files[CacheFileName(model)]
    IN  IF file = <<>> THEN <<>>
        ELSE IF ~file[1].ok THEN <<>>
        ELSE IF file[1].model # model THEN <<>>
        ELSE file

\* hash_to_embedding[h]: the embedding of the last cached text whose hash is h
HashToEmbedding(cached_data, seed, h) ==
    LET J == {j \in 1..Len(cached_data.texts) : PyHash(seed, cached_data.texts[j]) = h}
    IN  IF J = {} THEN <<>>
        ELSE <<cached_data.embeddings[CHOOSE j \in J : \A k \in J : k <= j]>>

\* create_embeddings(chunks, config, cache_dir) in a process whose hash seed is
\* seed: the embeddings, the exception leaving the call, where the embeddings
\* come from, and the cache files afterwards
CreateEmbeddings(files, chunks, model, use_cache, seed, write_ok) ==
    LET computed == [i \in 1..Len(chunks) |-> EmbedTextBy(model, chunks[i].text)]
        texts == [i \in 1..Len(chunks) |-> chunks[i].text]
        cached_data == IF use_cache THEN LoadCache(files, model) ELSE <<>>
        chunk_hashes == [i \in 1..Len(chunks) |-> PyHash(seed, chunks[i].text)]
        generated == [embeddings |-> computed, err |-> NoErr, source |-> "computed",
                      files |-> IF use_cache
                                THEN SaveCache(files, model, texts, computed, seed, write_ok)
                                ELSE files]
    IN  IF chunks = <<>>
        THEN [embeddings |-> <<>>, err |-> NoErr, source |-> "empty", files |-> files]
        ELSE IF cached_data = <<>> THEN generated
        ELSE IF \E i \in 1..Len(chunks) :
                   \A j \in 1..Len(cached_data[1].text_hashes) :
                       cached_data[1].text_hashes[j] # chunk_hashes[i]
        THEN generated
        ELSE IF \E i \in 1..Len(chunks) :
                   HashToEmbedding(cached_data[1], seed, chunk_hashes[i]) = <<>>
        THEN [embeddings |-> <<>>, err |-> ErrKeyError, source |-> "raised", files |-> files]
        ELSE [embeddings |-> [i \in 1..Len(chunks) |->
                                 HashToEmbedding(cached_data[1], seed, chunk_hashes[i])[1]],
              err |-> NoErr, source |-> "cache", files |-> files]

(***************************************************************************)
(* Read-only queries of VectorDatabase.                                    *)
(***************************************************************************)
\* search_by_text(query_text, embedding_model, config): results and exception
SearchByText(d, query_text, embed_ok, config, ties) ==
    IF ~embed_ok THEN [results |-> <<>>, err |-> ErrEmbedding]
    ELSE [results |-> Search(d, EmbedText(query_text), config.top_k,
                             config.similarity_threshold, ties),
          err |-> NoErr]

\* get_all_chunks: the returned list and whether it is the very list object
\* the database keeps (self.chunks.copy() makes a new list)
GetAllChunksNoCopy(d) == [list |-> d.chunks, shares |-> TRUE]

GetAllChunks(d) == [list |-> d.chunks, shares |-> FALSE]

\* get_chunk_by_id: the first stored chunk with that paragraph_id, or None
GetChunkById(d, paragraph_id) ==
    LET hits == {i \in 1..Len(d.chunks) : d.chunks[i].paragraph_id = paragraph_id}
    IN  IF hits = {} THEN <<>>
        ELSE <<d.chunks[CHOOSE i \in hits : \A j \in hits : i <= j]>>

(***************************************************************************)
(* RAGSystem.get_context_for_chunk                                         *)
(***************************************************************************)
\* `except ValueError` of the knowledge-base lookup
CaughtAsMissingKB(err) == err[1].kind = "ValueError"

ExcludeSelf(results, chunk) ==
    SelectSeq(results, LAMBDA r : r.chunk.paragraph_id # chunk.paragraph_id)

\* agent_config is [name, top_k, similarity_threshold]; embed_ok is whether the
\* embedding provider answers.  Returns the RAGContext (Optional) and the
\* exception leaving the method, if any.
GetContextNoHandler(m, dbs, rubric, chunk, agent_config, embed_ok, ties) ==
    IF ~embed_ok THEN [ctx |-> <<>>, err |-> ErrEmbedding]
    ELSE IF GetDatabase(m, dbs, <<>>).err # NoErr
    THEN [ctx |-> <<>>, err |-> GetDatabase(m, dbs, <<>>).err]
    ELSE IF GetDatabase(m, dbs, <<agent_config.name>>).err # NoErr
    THEN [ctx |-> <<>>, err |-> GetDatabase(m, dbs, <<agent_config.name>>).err]
    ELSE [ctx |-> <<[target_chunk |-> chunk,
                     retrieved_chunks |->
                        ExcludeSelf(Search(m[1], EmbedText(chunk.text), agent_config.top_k,
                                           agent_config.similarity_threshold, ties), chunk),
                     agent_knowledge |->
                        Search(dbs[agent_config.name], EmbedText(chunk.text),
                               agent_config.top_k, agent_config.similarity_threshold, ties),
                     global_rubric |-> rubric]>>,
          err |-> NoErr]

GetContextNoFilter(m, dbs, rubric, chunk, agent_config, embed_ok, ties) ==
    LET r == GetContextNoHandler(m, dbs, rubric, chunk, agent_config, embed_ok, ties)
    IN  IF r.ctx = <<>> THEN r
        ELSE [r EXCEPT !.ctx[1].retrieved_chunks =
                  Search(m[1], EmbedText(chunk.text), agent_config.top_k,
                         agent_config.similarity_threshold, ties)]

GetContextKBDefaults(m, dbs, rubric, chunk, agent_config, embed_ok, ties) ==
    LET r == GetContextNoFilter(m, dbs, rubric, chunk, agent_config, embed_ok, ties)
        f == GetContextNoHandler(m, dbs, rubric, chunk, agent_config, embed_ok, ties)
    IN  IF f.ctx = <<>>
        THEN IF embed_ok /\ GetDatabase(m, dbs, <<>>).err = NoErr
             THEN [ctx |-> <<[target_chunk |-> chunk,
                              retrieved_chunks |->
                                 ExcludeSelf(Search(m[1], EmbedText(chunk.text),
                                                    agent_config.top_k,
                                                    agent_config.similarity_threshold, ties),
                                             chunk),
                              agent_knowledge |-> <<>>,
                              global_rubric |-> rubric]>>,
                   err |-> NoErr]
             ELSE f
        ELSE [f EXCEPT !.ctx[1].agent_knowledge =
                  Search(dbs[agent_config.name], EmbedText(chunk.text), 5, 700, ties)]

\* variant that answers a failing embedding provider with an empty context
GetContextAbsorbsEmbedding(m, dbs, rubric, chunk, agent_config, embed_ok, ties) ==
    IF ~embed_ok
    THEN [ctx |-> <<[target_chunk |-> chunk, retrieved_chunks |-> <<>>,
                     agent_knowledge |-> <<>>, global_rubric |-> rubric]>>,
          err |-> NoErr]
    ELSE GetContextKBDefaults(m, dbs, rubric, chunk, agent_config, embed_ok, ties)

\* variant that asks for one match more and cuts to top_k after the target
\* has been taken out
GetContextRefillsSelf(m, dbs, rubric, chunk, agent_config, embed_ok, ties) ==
    LET r == GetContextAbsorbsEmbedding(m, dbs, rubric, chunk, agent_config, embed_ok, ties)
    IN  IF ~embed_ok THEN [ctx |-> <<>>, err |-> ErrEmbedding]
        ELSE IF r.ctx = <<>> THEN r
        ELSE [r EXCEPT !.ctx[1].retrieved_chunks =
                 Take(ExcludeSelf(Search(m[1], EmbedText(chunk.text), agent_config.top_k + 1,
                                         agent_config.similarity_threshold, ties), chunk),
                      agent_config.top_k)]

GetContextForChunk(m, dbs, rubric, chunk, agent_config, embed_ok, ties) ==
    IF ~embed_ok THEN [ctx |-> <<>>, err |-> ErrEmbedding]
    ELSE LET query_embedding == EmbedText(chunk.text)
             main == GetDatabase(m, dbs, <<>>)
             agent == GetDatabase(m, dbs, <<agent_config.name>>)
         IN  IF main.err # NoErr THEN [ctx |-> <<>>, err |-> main.err]
             ELSE IF agent.err # NoErr /\ ~CaughtAsMissingKB(agent.err)
             THEN [ctx |-> <<>>, err |-> agent.err]
             ELSE [ctx |-> <<[target_chunk |-> chunk,
                              retrieved_chunks |->
                                 ExcludeSelf(Search(Deref(m, dbs, main.ref[1]), query_embedding,
                                                    agent_config.top_k,
                                                    agent_config.similarity_threshold, ties),
                                             chunk),
                              agent_knowledge |->
                                 IF agent.err # NoErr THEN <<>>
                                 ELSE Search(Deref(m, dbs, agent.ref[1]), query_embedding,
                                             agent_config.top_k,
                                             agent_config.similarity_threshold, ties),
                              global_rubric |-> rubric]>>,
                   err |-> NoErr]

\* batch_get_context(chunks, agent_config): the list of contexts and the
\* exception leaving the loop, if any
BatchGetContextDedup(m, dbs, rubric, chunks, agent_config, embed_ok, ties) ==
    LET firsts == SelectSeq([i \in 1..Len(chunks) |-> [pos |-> i, chunk |-> chunks[i]]],
                            LAMBDA e : \A j \in 1..(e.pos - 1) : chunks[j] # e.chunk)
        rs == [i \in 1..Len(firsts) |->
                  GetContextForChunk(m, dbs, rubric, firsts[i].chunk, agent_config, embed_ok, ties)]
    IN  IF \E i \in 1..Len(rs) : rs[i].err # NoErr
        THEN [contexts |-> <<>>, err |-> rs[1].err]
        ELSE [contexts |-> [i \in 1..Len(rs) |-> rs[i].ctx[1]], err |-> NoErr]

BatchGetContext(m, dbs, rubric, chunks, agent_config, embed_ok, ties) ==
    LET rs == [i \in 1..Len(chunks) |->
                  GetContextForChunk(m, dbs, rubric, chunks[i], agent_config, embed_ok, ties)]
        failed == {i \in 1..Len(chunks) : rs[i].err # NoErr}
    IN  IF failed # {}
        THEN [contexts |-> <<>>, err |-> rs[CHOOSE i \in failed : \A j \in failed : i <= j].err]
        ELSE [contexts |-> [i \in 1..Len(chunks) |-> rs[i].ctx[1]], err |-> NoErr]

(***************************************************************************)
(* Input domains.                                                          *)
(***************************************************************************)
SeqsUpTo(S, n) == UNION {[1..m -> S] : m \in 0..n}
DistinctSeqsUpTo(S, n) ==
    {s \in SeqsUpTo(S, n) : \A i, j \in 1..Len(s) : i # j => s[i] # s[j]}

Letters == <<"a", "b", "c", "d", "e", "f", "g", "h">>

\* main-document chunks: distinct identifiers, texts of growing length
DocChunk(i) == [paragraph_id |-> <<"d", "_", DigitChar(i)>>, text |-> Rep(Letters[i + 1], 3 + i)]
DocChunks == {DocChunk(0), DocChunk(1), DocChunk(2)}

\* knowledge-base chunks
KBChunk(i) == [paragraph_id |-> <<"k", "_", DigitChar(i)>>,
               text |-> Rep(IF i % 2 = 0 THEN "k" ELSE "l", 2 + i)]
KBChunks == {KBChunk(0), KBChunk(1)}

A1 == <<"a", "1">>
A2 == <<"a", "2">>
A3 == <<"a", "3">>
AgentNames == {A1, A2, A3}
KBAgents == {A1, A2}

Vecs == {<<1000, 0>>, <<900, 100>>, <<0, 0>>, <<0 - 1000, 0>>}
WideVec == <<1000, 0, 0>>
Thresholds == {0 - 500, 700, 1001}
RegThresholds == {0, 700}
AgentConfigs == [name : AgentNames, top_k : 1..MaxK, similarity_threshold : RegThresholds]
RegRubric == << <<"r">> >>

NoCall == [op |-> "none"]
NoContext == [target_chunk |-> DocChunk(0), retrieved_chunks |-> <<>>,
              agent_knowledge |-> <<>>, global_rubric |-> <<>>]
DbIdle == /\ db = NewVectorDatabase(Dim, "IndexFlatIP")
          /\ dbRes = NoCall
RegIdle == /\ main_db = <<>>
           /\ databases = <<>>
           /\ regRes = NoCall
FmtIdle == /\ fctx = NoContext
           /\ fcall = NoCall
           /\ fout = <<>>
StoreIdle == /\ disk = <<>>
             /\ rcv = NewVectorDatabase(Dim, "IndexFlatIP")
CacheIdle == /\ cacheFiles = [name \in CacheFileNames |-> <<>>]
             /\ cacheRes = NoCall
RunIdle == /\ run = NoCall
           /\ kbFault = <<>>
           /\ tasks = <<>>
           /\ searched = FALSE
           /\ crew = NoCall
           /\ llm = {}

(***************************************************************************)
(* Specification of the stand-alone VectorDatabase.                        *)
(***************************************************************************)
DbInit ==
    /\ \E t \in IndexTypes : db = NewVectorDatabase(Dim, t)
    /\ dbRes = NoCall
    /\ faissTies \in TieOrders
    /\ RegIdle
    /\ FmtIdle
    /\ StoreIdle
    /\ CacheIdle
    /\ RunIdle

\* db.add_chunks(chunks, embeddings); the chunks are the next ones of the document
DbAddChunks ==
    \E n \in 0..MaxBatch, m \in 0..MaxBatch, w \in {Dim, Dim + 1} :
      \E rows \in [1..m -> IF w = Dim THEN Vecs ELSE {WideVec}] :
        LET chunks == [i \in 1..n |-> DocChunk(Len(db.chunks) + i - 1)]
            r == AddChunks(db, chunks, [rows |-> rows, width |-> w])
        IN  /\ dbRes = NoCall
            /\ Len(db.index) + n <= MaxIndex
            /\ m \in {n, n - 1, n + 1}
            /\ db' = r.db
            /\ dbRes' = [op |-> "add_chunks", before |-> db, n_chunks |-> n,
                         n_rows |-> m, width |-> w,
                         zero_rows |-> {i \in 1..m : Norm(rows[i]) = 0}, err |-> r.err]
            /\ UNCHANGED <<main_db, databases, regRes, faissTies, fctx, fcall, fout, storeVars, runVars, cacheVars>>

\* db.search(query_embedding, k, similarity_threshold)
DbSearch ==
    \E q \in Vecs, k \in 1..MaxK, th \in Thresholds :
        /\ dbRes = NoCall
        /\ dbRes' = [op |-> "search", q |-> q, k |-> k, th |-> th,
                     results |-> Search(db, q, k, th, faissTies)]
        /\ UNCHANGED <<db, main_db, databases, regRes, faissTies, fctx, fcall, fout, storeVars, runVars, cacheVars>>

\* the caller takes the outcome of the call
DbReturn ==
    /\ dbRes # NoCall
    /\ dbRes' = NoCall
    /\ UNCHANGED <<db, main_db, databases, regRes, faissTies, fctx, fcall, fout, storeVars, runVars, cacheVars>>

DbNext == DbAddChunks \/ DbSearch \/ DbReturn

SpecDb == DbInit /\ [][DbNext]_vars

(***************************************************************************)
(* Specification of a cosine index of dimension 4 that is filled with      *)
(* three given vectors, in their order, and searched.                      *)
(***************************************************************************)
ScenarioVectors == <<<<1000, 0, 0, 0>>, <<0, 1000, 0, 0>>, <<900, 100, 0, 0>>>>
ScenarioQueries == {<<1000, 0, 0, 0>>, <<0, 1000, 0, 0>>, <<0, 0, 1000, 0>>}
ScenarioThresholds == {0, 500, 995}
ScenarioDim == Len(ScenarioVectors[1])

ScnInit ==
    /\ db = NewVectorDatabase(ScenarioDim, "IndexFlatIP")
    /\ dbRes = NoCall
    /\ faissTies \in TieOrders
    /\ RegIdle
    /\ FmtIdle
    /\ StoreIdle
    /\ CacheIdle
    /\ RunIdle

\* db.add_chunks(chunks, embeddings) with the next n chunks and their vectors
ScnAddChunks ==
    \E n \in 1..Len(ScenarioVectors) :
        LET at == Len(db.chunks)
            chunks == [i \in 1..n |-> DocChunk(at + i - 1)]
            rows == [i \in 1..n |-> ScenarioVectors[at + i]]
            r == AddChunks(db, chunks, [rows |-> rows, width |-> ScenarioDim])
        IN  /\ dbRes = NoCall
            /\ at + n <= Len(ScenarioVectors)
            /\ db' = r.db
            /\ dbRes' = [op |-> "add_chunks", n_chunks |-> n, err |-> r.err]
            /\ UNCHANGED <<main_db, databases, regRes, faissTies, fctx, fcall, fout,
                           storeVars, runVars, cacheVars>>

\* db.search(query_embedding, k, similarity_threshold)
ScnSearch ==
    \E q \in ScenarioQueries, k \in 1..Len(ScenarioVectors), th \in ScenarioThresholds :
        /\ dbRes = NoCall
        /\ dbRes' = [op |-> "search", q |-> q, k |-> k, th |-> th,
                     results |-> Search(db, q, k, th, faissTies)]
        /\ UNCHANGED <<db, main_db, databases, regRes, faissTies, fctx, fcall, fout,
                       storeVars, runVars, cacheVars>>

ScnNext == ScnAddChunks \/ ScnSearch \/ DbReturn

SpecScn == ScnInit /\ [][ScnNext]_vars

(***************************************************************************)
(* Specification of persistence: db is built and saved, rcv (constructed   *)
(* with any supported dimension and index type) loads the directory.       *)
(***************************************************************************)
StoreVecs == {<<1000, 0>>, <<900, 100>>, <<0, 0>>}

StInit ==
    /\ \E t \in IndexTypes : db = NewVectorDatabase(Dim, t)
    /\ \E w \in {Dim, Dim + 1}, t \in IndexTypes : rcv = NewVectorDatabase(w, t)
    /\ disk = <<>>
    /\ dbRes = NoCall
    /\ faissTies \in TieOrders
    /\ RegIdle
    /\ FmtIdle
    /\ RunIdle
    /\ CacheIdle

\* db.add_chunks(chunks, embeddings) with matching embeddings
StAddChunks ==
    \E n \in 1..MaxBatch :
      \E rows \in [1..n -> StoreVecs] :
        LET chunks == [i \in 1..n |-> DocChunk(Len(db.chunks) + i - 1)]
            r == AddChunks(db, chunks, [rows |-> rows, width |-> Dim])
        IN  /\ dbRes = NoCall
            /\ Len(db.index) + n <= MaxStored
            /\ db' = r.db
            /\ dbRes' = [op |-> "add_chunks", on |-> "db", chunks |-> chunks,
                         rows |-> rows, err |-> r.err]
            /\ UNCHANGED <<disk, rcv, faissTies, main_db, databases, regRes,
                           fctx, fcall, fout, runVars, cacheVars>>

\* rcv.add_chunks([chunk], embedding): the receiving instance has content of its own
StRcvAddChunks ==
    LET chunk == KBChunk(Len(rcv.chunks) % 2)
        row == IF rcv.embedding_dim = Dim THEN <<0, 1000>> ELSE WideVec
        r == AddChunks(rcv, <<chunk>>, [rows |-> <<row>>, width |-> rcv.embedding_dim])
    IN  /\ dbRes = NoCall
        /\ Len(rcv.index) + 1 <= MaxStored
        /\ Len(rcv.chunks) + 1 <= MaxStored
        /\ rcv' = r.db
        /\ dbRes' = [op |-> "add_chunks", on |-> "rcv", chunks |-> <<chunk>>,
                     rows |-> <<row>>, err |-> r.err]
        /\ UNCHANGED <<disk, db, faissTies, main_db, databases, regRes,
                       fctx, fcall, fout, runVars, cacheVars>>

\* db.save(path)
StSave ==
    /\ dbRes = NoCall
    /\ disk' = <<Save(db)>>
    /\ dbRes' = [op |-> "save", err |-> NoErr]
    /\ UNCHANGED <<db, rcv, faissTies, main_db, databases, regRes,
                   fctx, fcall, fout, runVars, cacheVars>>

\* index.faiss or chunks.pkl of the saved directory is deleted or can no
\* longer be read
StLoseFile ==
    \E file \in {"index_faiss", "chunks_pkl"} :
        /\ dbRes = NoCall
        /\ disk # <<>>
        /\ disk[1][file] # <<>>
        /\ disk' = <<[disk[1] EXCEPT ![file] = <<>>]>>
        /\ UNCHANGED <<db, rcv, dbRes, faissTies, main_db, databases, regRes,
                       fctx, fcall, fout, runVars, cacheVars>>

\* rcv.load(path)
StLoad ==
    LET r == Load(rcv, disk)
    IN  /\ dbRes = NoCall
        /\ rcv' = r.db
        /\ dbRes' = [op |-> "load", before |-> rcv, err |-> r.err]
        /\ UNCHANGED <<db, disk, faissTies, main_db, databases, regRes,
                       fctx, fcall, fout, runVars, cacheVars>>

\* the caller takes the outcome of the call
StReturn ==
    /\ dbRes # NoCall
    /\ dbRes' = NoCall
    /\ UNCHANGED <<db, rcv, disk, faissTies, main_db, databases, regRes,
                   fctx, fcall, fout, runVars, cacheVars>>

StNext == StAddChunks \/ StRcvAddChunks \/ StSave \/ StLoseFile \/ StLoad \/ StReturn

SpecStore == StInit /\ [][StNext]_vars

(***************************************************************************)
(* Specification of the registry and of context assembly.                  *)
(***************************************************************************)
Init ==
    /\ RegIdle
    /\ faissTies \in TieOrders
    /\ DbIdle
    /\ FmtIdle
    /\ StoreIdle
    /\ CacheIdle
    /\ RunIdle

\* embeddings handed in with the chunks: those of the chunks, or one row short
EmbeddingsFor(chunks) ==
    {EmbedChunks(chunks)} \cup
    (IF chunks = <<>> THEN {} ELSE {EmbedChunks(Tail(chunks))})

\* vector_db.create_main_database(chunks, embeddings)
CreateMainDatabase ==
    \E chunks \in DistinctSeqsUpTo(DocChunks, MaxMain) :
      \E embeddings \in EmbeddingsFor(chunks) :
        LET r == MainDatabaseCreated(main_db, chunks, embeddings)
        IN  /\ regRes = NoCall
            /\ main_db' = r.main_db
            /\ regRes' = [op |-> "create_main_database", chunks |-> chunks,
                          before |-> main_db, err |-> r.err]
            /\ UNCHANGED <<databases, db, dbRes, faissTies, fctx, fcall, fout, storeVars, runVars, cacheVars>>

\* vector_db.create_agent_database(agent_name, kb_chunks, kb_embeddings)
CreateAgentDatabase ==
    \E name \in KBAgents, kb_chunks \in DistinctSeqsUpTo(KBChunks, MaxKB) :
      \E kb_embeddings \in EmbeddingsFor(kb_chunks) :
        LET r == AgentDatabaseCreated(databases, name, kb_chunks, kb_embeddings)
        IN  /\ regRes = NoCall
            /\ databases' = r.databases
            /\ regRes' = [op |-> "create_agent_database", name |-> name,
                          chunks |-> kb_chunks, n_rows |-> Len(kb_embeddings.rows),
                          existed |-> name \in DOMAIN databases, err |-> r.err]
            /\ UNCHANGED <<main_db, db, dbRes, faissTies, fctx, fcall, fout, storeVars, runVars, cacheVars>>

\* vector_db.get_database(agent_name)
GetDatabaseCall ==
    \E agent_name \in {<<>>} \cup {<<a>> : a \in AgentNames} :
        LET r == GetDatabase(main_db, databases, agent_name)
        IN  /\ regRes = NoCall
            /\ regRes' = [op |-> "get_database", agent_name |-> agent_name,
                          ref |-> r.ref, err |-> r.err]
            /\ UNCHANGED <<main_db, databases, db, dbRes, faissTies, fctx, fcall, fout, storeVars, runVars, cacheVars>>

\* rag_system.get_context_for_chunk(chunk, agent_config)
GetContextCall ==
    \E chunk \in DocChunks \cup {KBChunk(0)}, agent_config \in AgentConfigs,
       embed_ok \in BOOLEAN :
        LET r == GetContextForChunk(main_db, databases, RegRubric, chunk,
                                    agent_config, embed_ok, faissTies)
        IN  /\ regRes = NoCall
            /\ regRes' = [op |-> "get_context_for_chunk", chunk |-> chunk,
                          agent_config |-> agent_config, embed_ok |-> embed_ok,
                          ctx |-> r.ctx, err |-> r.err]
            /\ UNCHANGED <<main_db, databases, db, dbRes, faissTies, fctx, fcall, fout, storeVars, runVars, cacheVars>>

\* the caller takes the outcome of the call
Return ==
    /\ regRes # NoCall
    /\ regRes' = NoCall
    /\ UNCHANGED <<main_db, databases, db, dbRes, faissTies, fctx, fcall, fout, storeVars, runVars, cacheVars>>

Next ==
    CreateMainDatabase \/ CreateAgentDatabase \/ GetDatabaseCall \/ GetContextCall \/ Return

Spec == Init /\ [][Next]_vars

(***************************************************************************)
(* Specification of the formatter: a RAGContext is constructed, then       *)
(* format_context_for_agent is called on it once.                          *)
(***************************************************************************)
PoolSims == <<1000, 994, 705, 0 - 4, 125, 700, 0 - 500, 15>>
MainMatch(i) == [chunk |-> DocChunk(i), sim |-> PoolSims[i]]
KBMatch(i) == [chunk |-> KBChunk(i), sim |-> PoolSims[i + 2]]
LongChunk == [paragraph_id |-> <<"d", "_", "9">>, text |-> Rep("z", 60)]
EmptyChunk == [paragraph_id |-> <<"d", "_", "8">>, text |-> <<>>]
FmtTargets == {DocChunk(0), LongChunk, EmptyChunk}
Rubrics == {<<>>, << <<>> >>, << <<"b", "e", " ", "f", "a", "i", "r">> >>}
ContextLengths == {0 - 5, 0, 20, 90, 100, 150, 2000}

FmtInit ==
    /\ \E target \in FmtTargets, nr \in 0..MaxRetrieved, nk \in 0..MaxKnowledge,
          rubric \in Rubrics :
          fctx = [target_chunk |-> target,
                  retrieved_chunks |-> [i \in 1..nr |-> MainMatch(i)],
                  agent_knowledge |-> [i \in 1..nk |-> KBMatch(i)],
                  global_rubric |-> rubric]
    /\ fcall = NoCall
    /\ fout = <<>>
    /\ faissTies = "low_id_first"
    /\ DbIdle
    /\ RegIdle
    /\ StoreIdle
    /\ CacheIdle
    /\ RunIdle

\* fctx.format_context_for_agent(agent_name, max_context_length)
FormatCall ==
    \E agent_name \in {A1}, max_context_length \in ContextLengths :
        /\ fout = <<>>
        /\ fcall' = [op |-> "format_context_for_agent", agent_name |-> agent_name,
                     max_context_length |-> max_context_length]
        /\ fout' = <<FormatContextForAgent(fctx, agent_name, max_context_length)>>
        /\ UNCHANGED <<fctx, db, dbRes, main_db, databases, regRes, faissTies, storeVars, runVars, cacheVars>>

FmtNext == FormatCall

SpecFmt == FmtInit /\ [][FmtNext]_vars

(***************************************************************************)
(* Specification of one review run: create_rag_system builds the registry  *)
(* (main index, then one knowledge base per agent that has kb_refs), then  *)
(* ReviewCrew.review_document reviews the document agent after agent, the  *)
(* chunks of one agent in a thread pool.                                   *)
(***************************************************************************)
\* the document of the run and the configured agents
RunDoc == [c \in 1..MaxMain |-> DocChunk(c - 1)]
RunAgent(name, kb_refs) ==
    [name |-> name, kb_refs |-> kb_refs, top_k |-> 2, similarity_threshold |-> 0]
RunAgents == <<RunAgent(A1, <<"f0", "f1">>), RunAgent(A2, <<"f1">>), RunAgent(A3, <<>>)>>

\* loaders.load_document of a knowledge-base file that can be read
LoadDocument(kb_file) == IF kb_file = "f0" THEN <<KBChunk(0)>> ELSE <<KBChunk(1)>>

\* what can go wrong while one agent's knowledge base is built: its first file
\* cannot be loaded, the embedding provider fails, or FAISS fails
KBFaults == {"none", "file", "embed", "index"}
ErrIndexCreation == <<[kind |-> "MemoryError", msg |-> "index creation failed"]>>

\* kb_chunks of add_agent_knowledge_base: the chunks of the files that load
RECURSIVE LoadedKBChunks(_, _)
LoadedKBChunks(kb_files, fault) ==
    IF kb_files = <<>> THEN <<>>
    ELSE (IF fault = "file" THEN <<>> ELSE LoadDocument(Head(kb_files)))
         \o LoadedKBChunks(Tail(kb_files), "none")

\* rag_system.add_agent_knowledge_base(agent_name, kb_files)
AddAgentKnowledgeBase(dbs, agent_name, kb_files, fault) ==
    LET kb_chunks == LoadedKBChunks(kb_files, fault)
    IN  IF kb_files = <<>> \/ kb_chunks = <<>> THEN [databases |-> dbs, err |-> NoErr]
        ELSE IF fault = "embed" THEN [databases |-> dbs, err |-> ErrEmbedding]
        ELSE IF fault = "index" THEN [databases |-> dbs, err |-> ErrIndexCreation]
        ELSE AgentDatabaseCreated(dbs, agent_name, kb_chunks, EmbedChunks(kb_chunks))

\* create_rag_system has returned: its loop over agent_configs is exhausted
RagSystemReturnedEarly(r) == r.i >= 1

RagSystemReturned(r) == r.i > Len(RunAgents)

Active == {"running", "used_tool"}

\* AgentReview (comments and suggested_rewrite left out); scores is the dict
\* as a sequence of (criterion, score) items, numbers in FP units
CreateErrorReview(agent_name, chunk) ==
    [agent_name |-> agent_name, paragraph_id |-> chunk.paragraph_id,
     scores |-> <<[criterion |-> "error", score |-> 0]>>,
     overall_score |-> 0, confidence |-> 0]

\* how crew.kickoff() can end: with a JSON answer, with an answer whose
\* overall_score is not the average and that names no confidence, with text
\* that is not JSON, or with an exception
LlmOutcomes == {"answers", "answers_off", "bad_json", "kickoff_raises"}
DefaultConfidence == 800
ScoreTolerance == 10

LlmAnswer(outcome) ==
    [scores |-> <<[criterion |-> "clarity", score |-> 4000],
                  [criterion |-> "accuracy", score |-> 3000]>>,
     overall_score |-> IF outcome = "answers" THEN 3500 ELSE 5000,
     confidence |-> IF outcome = "answers" THEN <<900>> ELSE <<>>]

\* _parse_review_result
ParseReviewResult(agent_name, chunk, outcome) ==
    IF outcome = "bad_json" THEN CreateErrorReview(agent_name, chunk)
    ELSE LET review_data == LlmAnswer(outcome)
             scores == review_data.scores
             calculated_avg == RoundDiv(SumSeq([i \in 1..Len(scores) |-> scores[i].score]),
                                        Max(Len(scores), 1))
         IN  [agent_name |-> agent_name, paragraph_id |-> chunk.paragraph_id,
              scores |-> scores,
              overall_score |->
                  IF scores # <<>> /\ Abs(review_data.overall_score - calculated_avg) > ScoreTolerance
                  THEN calculated_avg ELSE review_data.overall_score,
              confidence |-> IF review_data.confidence = <<>> THEN DefaultConfidence
                             ELSE review_data.confidence[1]]

\* ReviewAgent.review_paragraph: every exception ends in an error review
ReviewParagraph(agent_name, chunk, outcome) ==
    IF outcome = "kickoff_raises" THEN CreateErrorReview(agent_name, chunk)
    ELSE ParseReviewResult(agent_name, chunk, outcome)

\* _review_with_agent: reviews after the result of one future is taken
CollectedDropsFailures(reviews, review) ==
    IF review.confidence = 0 THEN reviews ELSE Append(reviews, review)

Collected(reviews, review) == Append(reviews, review)

\* a ReviewCrew on which review_document has not been called yet
NewCrew(agents) ==
    [agents |-> agents, reviews |-> <<>>, results |-> <<>>, all_reviews |-> <<>>,
     err |-> NoErr]

RunInit ==
    /\ \E w \in 1..MaxWorkers :
          run = [i |-> 0, j |-> 1, max_workers |-> w, err |-> NoErr]
    /\ kbFault \in [{A1, A2} -> KBFaults]
    /\ tasks = <<>>
    /\ searched = FALSE
    /\ crew = NewCrew(RunAgents)
    /\ llm = {"answers_off"}
    /\ RegIdle
    /\ faissTies = "low_id_first"
    /\ DbIdle
    /\ FmtIdle
    /\ StoreIdle
    /\ CacheIdle

\* create_rag_system: embed the document, RAGSystem.create_from_document
RunCreateFromDocument ==
    LET r == CreateFromChunks(RunDoc, EmbedChunks(RunDoc))
    IN  /\ run.i = 0
        /\ run.err = NoErr
        /\ main_db' = r.db
        /\ run' = [run EXCEPT !.i = 1, !.err = r.err]
        /\ UNCHANGED <<databases, regRes, kbFault, tasks, searched, crew, llm, faissTies,
                       db, dbRes, fctx, fcall, fout, storeVars, cacheVars>>

\* create_rag_system: one turn of `for agent_config in agent_configs`
RunAddAgentKB ==
    /\ run.i \in 1..Len(RunAgents)
    /\ run.err = NoErr
    /\ LET agent_config == RunAgents[run.i]
           r == AddAgentKnowledgeBase(databases, agent_config.name, agent_config.kb_refs,
                                      IF agent_config.name \in DOMAIN kbFault
                                      THEN kbFault[agent_config.name] ELSE "none")
       IN  /\ databases' = r.databases
           /\ run' = IF r.err = NoErr THEN [run EXCEPT !.i = @ + 1]
                     ELSE [run EXCEPT !.err = r.err]
    /\ UNCHANGED <<main_db, regRes, kbFault, tasks, searched, crew, llm, faissTies,
                   db, dbRes, fctx, fcall, fout, storeVars, cacheVars>>

\* _review_with_agent: batch_get_context searches for every chunk in the main
\* thread (an exception there leaves review_document), then one
\* review_paragraph task per chunk is submitted
RunBatchContexts ==
    /\ RagSystemReturned(run)
    /\ run.err = NoErr
    /\ crew.err = NoErr
    /\ run.j \in 1..Len(crew.agents)
    /\ tasks = <<>>
    /\ \E embed_ok \in BOOLEAN :
         LET r == BatchGetContext(main_db, databases, RegRubric, RunDoc,
                                  crew.agents[run.j], embed_ok, faissTies)
         IN  IF r.err = NoErr
             THEN /\ tasks' = [c \in 1..Len(RunDoc) |-> "pending"]
                  /\ crew' = [crew EXCEPT !.reviews = <<>>,
                                          !.results = [c \in 1..Len(RunDoc) |-> <<>>]]
                  /\ searched' = TRUE
             ELSE /\ crew' = [crew EXCEPT !.err = r.err]
                  /\ UNCHANGED <<tasks, searched>>
    /\ UNCHANGED <<run, main_db, databases, regRes, kbFault, llm, faissTies,
                   db, dbRes, fctx, fcall, fout, storeVars, cacheVars>>

\* a task starts: tasks start in submission order, at most max_workers at a time
WorkerStart(t) ==
    /\ t \in DOMAIN tasks
    /\ tasks[t] = "pending"
    /\ \A u \in 1..(t - 1) : tasks[u] # "pending"
    /\ Cardinality({u \in DOMAIN tasks : tasks[u] \in Active}) < run.max_workers
    /\ tasks' = [tasks EXCEPT ![t] = "running"]
    /\ UNCHANGED <<run, main_db, databases, regRes, kbFault, searched, crew, llm, faissTies,
                   db, dbRes, fctx, fcall, fout, storeVars, cacheVars>>

\* the agent calls DocumentReviewTool._run: get_database().get_all_chunks(),
\* then get_context_for_chunk
WorkerTool(t) ==
    /\ t \in DOMAIN tasks
    /\ tasks[t] = "running"
    /\ tasks' = [tasks EXCEPT ![t] = "used_tool"]
    /\ searched' = TRUE
    /\ UNCHANGED <<run, main_db, databases, regRes, kbFault, crew, llm, faissTies,
                   db, dbRes, fctx, fcall, fout, storeVars, cacheVars>>

\* review_paragraph returns (a review or an error review): the future is done
WorkerFinish(t) ==
    /\ t \in DOMAIN tasks
    /\ tasks[t] \in Active
    /\ tasks' = [tasks EXCEPT ![t] = "done"]
    /\ \E outcome \in llm :
         crew' = [crew EXCEPT !.results[t] =
                     <<[outcome |-> outcome,
                        review |-> ReviewParagraph(crew.agents[run.j].name, RunDoc[t], outcome)]>>]
    /\ UNCHANGED <<run, main_db, databases, regRes, kbFault, searched, llm, faissTies,
                   db, dbRes, fctx, fcall, fout, storeVars, cacheVars>>

\* the main thread takes the result of a finished future and appends it to
\* reviews: with max_workers > 1 in the order as_completed yields the futures
\* (any finished one may come next), otherwise chunk after chunk
RunCollect(t) ==
    /\ t \in DOMAIN tasks
    /\ tasks[t] = "done"
    /\ run.max_workers > 1 \/ \A u \in 1..(t - 1) : tasks[u] = "collected"
    /\ tasks' = [tasks EXCEPT ![t] = "collected"]
    /\ crew' = [crew EXCEPT !.reviews = Collected(@, crew.results[t][1].review)]
    /\ UNCHANGED <<run, main_db, databases, regRes, kbFault, searched, llm, faissTies,
                   db, dbRes, fctx, fcall, fout, storeVars, cacheVars>>

\* all futures are collected and the pool is shut down; review_document
\* extends all_reviews and goes on to the next agent
RunPoolJoin ==
    /\ tasks # <<>>
    /\ \A t \in DOMAIN tasks : tasks[t] = "collected"
    /\ tasks' = <<>>
    /\ run' = [run EXCEPT !.j = @ + 1]
    /\ crew' = [crew EXCEPT !.all_reviews = @ \o crew.reviews,
                            !.reviews = <<>>, !.results = <<>>]
    /\ UNCHANGED <<main_db, databases, regRes, kbFault, searched, llm, faissTies,
                   db, dbRes, fctx, fcall, fout, storeVars, cacheVars>>

RunNext ==
    \/ RunCreateFromDocument
    \/ RunAddAgentKB
    \/ RunBatchContexts
    \/ \E t \in 1..Len(RunDoc) : WorkerStart(t)
    \/ \E t \in 1..Len(RunDoc) : WorkerTool(t)
    \/ \E t \in 1..Len(RunDoc) : WorkerFinish(t)
    \/ \E t \in 1..Len(RunDoc) : RunCollect(t)
    \/ RunPoolJoin

SpecRun == RunInit /\ [][RunNext]_vars

(***************************************************************************)
(* Specification of review_document alone: the registry is the one         *)
(* create_rag_system builds when nothing fails, the crew holds the agents  *)
(* whose construction succeeded, and every call of the LLM backend can end *)
(* in an answer, in unparsable text or in an exception.  A step that can   *)
(* be taken is eventually taken.                                           *)
(***************************************************************************)
\* self.agents: _create_agents skips an agent whose construction raises
CrewAgentLists == {<<RunAgents[1], RunAgents[3]>>, <<RunAgents[2]>>}

\* vector_db after create_rag_system with every knowledge-base file readable
BuiltKnowledgeBases ==
    AddAgentKnowledgeBase(
        AddAgentKnowledgeBase(<<>>, A1, RunAgents[1].kb_refs, "none").databases,
        A2, RunAgents[2].kb_refs, "none").databases

CrewInit ==
    /\ \E w \in 1..MaxWorkers :
          run = [i |-> Len(RunAgents) + 1, j |-> 1, max_workers |-> w, err |-> NoErr]
    /\ kbFault = [a \in {A1, A2} |-> "none"]
    /\ main_db = CreateFromChunks(RunDoc, EmbedChunks(RunDoc)).db
    /\ databases = BuiltKnowledgeBases
    /\ regRes = NoCall
    /\ tasks = <<>>
    /\ searched = FALSE
    /\ \E agents \in CrewAgentLists : crew = NewCrew(agents)
    /\ llm = {"answers", "bad_json", "kickoff_raises"}
    /\ faissTies = "low_id_first"
    /\ DbIdle
    /\ FmtIdle
    /\ StoreIdle
    /\ CacheIdle

CrewNext ==
    \/ RunBatchContexts
    \/ \E t \in 1..Len(RunDoc) : WorkerStart(t)
    \/ \E t \in 1..Len(RunDoc) : WorkerTool(t)
    \/ \E t \in 1..Len(RunDoc) : WorkerFinish(t)
    \/ \E t \in 1..Len(RunDoc) : RunCollect(t)
    \/ RunPoolJoin

SpecCrew == CrewInit /\ [][CrewNext]_vars /\ WF_vars(CrewNext)

(***************************************************************************)
(* Specification of the embedding cache: create_embeddings is called with  *)
(* chunk lists, model identifiers and a cache directory or none, in        *)
(* processes with their own hash seeds; a cache file can become unreadable.*)
(***************************************************************************)
CacheChunks == {DocChunk(0), DocChunk(2), DocChunk(3)}

CacheInit ==
    /\ CacheIdle
    /\ RegIdle
    /\ faissTies \in TieOrders
    /\ DbIdle
    /\ FmtIdle
    /\ StoreIdle
    /\ RunIdle

\* create_embeddings(chunks, config, cache_dir)
CacheCreateEmbeddings ==
    \E chunks \in SeqsUpTo(CacheChunks, MaxCtxBatch), model \in EmbedModels,
       use_cache \in BOOLEAN, seed \in HashSeeds, write_ok \in BOOLEAN :
        LET r == CreateEmbeddings(cacheFiles, chunks, model, use_cache, seed, write_ok)
        IN  /\ cacheRes = NoCall
            /\ cacheFiles' = r.files
            /\ cacheRes' = [op |-> "create_embeddings", chunks |-> chunks, model |-> model,
                            use_cache |-> use_cache, seed |-> seed, write_ok |-> write_ok,
                            before |-> cacheFiles[CacheFileName(model)],
                            embeddings |-> r.embeddings, source |-> r.source, err |-> r.err]
            /\ UNCHANGED <<db, dbRes, main_db, databases, regRes, faissTies,
                           fctx, fcall, fout, storeVars, runVars>>

\* a cache file is damaged, so that pickle.load raises on it
CacheDamage ==
    \E name \in CacheFileNames :
        /\ cacheRes = NoCall
        /\ cacheFiles[name] # <<>>
        /\ cacheFiles[name] # <<UnreadableCache>>
        /\ cacheFiles' = [cacheFiles EXCEPT ![name] = <<UnreadableCache>>]
        /\ UNCHANGED <<cacheRes, db, dbRes, main_db, databases, regRes, faissTies,
                       fctx, fcall, fout, storeVars, runVars>>

\* the caller takes the outcome of the call
CacheReturn ==
    /\ cacheRes # NoCall
    /\ cacheRes' = NoCall
    /\ UNCHANGED <<cacheFiles, db, dbRes, main_db, databases, regRes, faissTies,
                   fctx, fcall, fout, storeVars, runVars>>

CacheNext == CacheCreateEmbeddings \/ CacheDamage \/ CacheReturn

SpecCache == CacheInit /\ [][CacheNext]_vars

(***************************************************************************)
(* Specification of the queries: a registry is filled, and every read-only *)
(* operation of VectorDatabase, MultiAgentVectorDB and RAGSystem is called *)
(* on it.                                                                  *)
(***************************************************************************)
RdDocs == {<<DocChunk(0), DocChunk(2)>>, <<DocChunk(0), DocChunk(1), DocChunk(2)>>}
RdKBs == {<<KBChunk(1)>>, <<KBChunk(0), KBChunk(1)>>}
RdTargets == {DocChunk(0), DocChunk(2)}
RdRetrieval == [top_k : {1, 2}, similarity_threshold : {0, 900}]
RdConfigs == [name : {A1, A2}, top_k : {1, 2}, similarity_threshold : {0, 900}]
RdNames == {<<>>, <<A1>>, <<A2>>}
RdQueries == {<<1000, 0>>, <<0, 1000>>}
RdIds == {DocChunk(0).paragraph_id, KBChunk(1).paragraph_id, <<"z">>}

RdInit ==
    /\ RegIdle
    /\ faissTies \in TieOrders
    /\ DbIdle
    /\ FmtIdle
    /\ StoreIdle
    /\ CacheIdle
    /\ RunIdle

\* vector_db.create_main_database(chunks, embed_chunks(chunks))
RdCreateMain ==
    \E chunks \in RdDocs :
        LET r == CreateFromChunks(chunks, EmbedChunks(chunks))
        IN  /\ regRes = NoCall
            /\ main_db' = r.db
            /\ regRes' = [op |-> "create_main_database", err |-> r.err]
            /\ UNCHANGED <<databases, faissTies, db, dbRes, fctx, fcall, fout, storeVars, runVars, cacheVars>>

\* vector_db.create_agent_database(A1, kb_chunks, embed_chunks(kb_chunks))
RdCreateAgent ==
    \E kb_chunks \in RdKBs :
        LET r == AgentDatabaseCreated(databases, A1, kb_chunks, EmbedChunks(kb_chunks))
        IN  /\ regRes = NoCall
            /\ databases' = r.databases
            /\ regRes' = [op |-> "create_agent_database", err |-> r.err]
            /\ UNCHANGED <<main_db, faissTies, db, dbRes, fctx, fcall, fout, storeVars, runVars, cacheVars>>

\* vector_db.get_database(agent_name)
RdGetDatabase ==
    \E agent_name \in RdNames :
        LET r == GetDatabase(main_db, databases, agent_name)
        IN  /\ regRes = NoCall
            /\ regRes' = [op |-> "get_database", agent_name |-> agent_name,
                          ref |-> r.ref, err |-> r.err]
            /\ UNCHANGED <<main_db, databases, faissTies, db, dbRes, fctx, fcall, fout,
                           storeVars, runVars, cacheVars>>

\* vector_db.get_database(agent_name).search(query_embedding, k, similarity_threshold)
RdSearch ==
    \E agent_name \in RdNames, q \in RdQueries, c \in RdRetrieval :
        LET g == GetDatabase(main_db, databases, agent_name)
        IN  /\ regRes = NoCall
            /\ g.err = NoErr
            /\ regRes' = [op |-> "search", on |-> g.ref[1], q |-> q, config |-> c,
                          results |-> Search(Deref(main_db, databases, g.ref[1]), q, c.top_k,
                                             c.similarity_threshold, faissTies)]
            /\ UNCHANGED <<main_db, databases, faissTies, db, dbRes, fctx, fcall, fout,
                           storeVars, runVars, cacheVars>>

\* vector_db.get_database(agent_name).search_by_text(query_text, embedding_model, config)
RdSearchByText ==
    \E agent_name \in RdNames, t \in RdTargets, c \in RdRetrieval, embed_ok \in BOOLEAN :
        LET g == GetDatabase(main_db, databases, agent_name)
            r == SearchByText(Deref(main_db, databases, g.ref[1]), t.text, embed_ok, c, faissTies)
        IN  /\ regRes = NoCall
            /\ g.err = NoErr
            /\ regRes' = [op |-> "search_by_text", on |-> g.ref[1], query_text |-> t.text,
                          config |-> c, results |-> r.results, err |-> r.err]
            /\ UNCHANGED <<main_db, databases, faissTies, db, dbRes, fctx, fcall, fout,
                           storeVars, runVars, cacheVars>>

\* vector_db.get_database(agent_name).get_chunk_by_id(paragraph_id)
RdGetChunkById ==
    \E agent_name \in RdNames, paragraph_id \in RdIds :
        LET g == GetDatabase(main_db, databases, agent_name)
        IN  /\ regRes = NoCall
            /\ g.err = NoErr
            /\ regRes' = [op |-> "get_chunk_by_id", on |-> g.ref[1],
                          paragraph_id |-> paragraph_id,
                          chunk |-> GetChunkById(Deref(main_db, databases, g.ref[1]), paragraph_id)]
            /\ UNCHANGED <<main_db, databases, faissTies, db, dbRes, fctx, fcall, fout,
                           storeVars, runVars, cacheVars>>

\* vector_db.get_database(agent_name).get_all_chunks()
RdGetAllChunks ==
    \E agent_name \in RdNames :
        LET g == GetDatabase(main_db, databases, agent_name)
            r == GetAllChunks(Deref(main_db, databases, g.ref[1]))
        IN  /\ regRes = NoCall
            /\ g.err = NoErr
            /\ regRes' = [op |-> "get_all_chunks", on |-> g.ref[1], list |-> r.list,
                          shares |-> r.shares, mutated |-> FALSE]
            /\ UNCHANGED <<main_db, databases, faissTies, db, dbRes, fctx, fcall, fout,
                           storeVars, runVars, cacheVars>>

\* the caller changes the list it got from get_all_chunks (list.pop(0) or
\* list.append); a list object shared with the database changes there too
RdCallerMutatesList ==
    /\ regRes.op = "get_all_chunks"
    /\ ~regRes.mutated
    /\ \E new \in {IF regRes.list = <<>> THEN <<>> ELSE Tail(regRes.list),
                   Append(regRes.list, KBChunk(0))} :
        /\ new # regRes.list
        /\ regRes' = [regRes EXCEPT !.list = new, !.mutated = TRUE]
        /\ main_db' = IF regRes.shares /\ regRes.on = MainRef
                      THEN <<[main_db[1] EXCEPT !.chunks = new]>> ELSE main_db
        /\ databases' = IF regRes.shares /\ regRes.on # MainRef
                        THEN [databases EXCEPT ![regRes.on.name[1]].chunks = new]
                        ELSE databases
        /\ UNCHANGED <<faissTies, db, dbRes, fctx, fcall, fout, storeVars, runVars, cacheVars>>

\* rag_system.get_context_for_chunk(chunk, agent_config)
RdGetContext ==
    \E chunk \in RdTargets, agent_config \in RdConfigs, embed_ok \in BOOLEAN :
        LET r == GetContextForChunk(main_db, databases, RegRubric, chunk,
                                    agent_config, embed_ok, faissTies)
        IN  /\ regRes = NoCall
            /\ regRes' = [op |-> "get_context_for_chunk", chunk |-> chunk,
                          agent_config |-> agent_config, embed_ok |-> embed_ok,
                          ctx |-> r.ctx, err |-> r.err]
            /\ UNCHANGED <<main_db, databases, faissTies, db, dbRes, fctx, fcall, fout,
                           storeVars, runVars, cacheVars>>

\* rag_system.batch_get_context(chunks, agent_config)
RdBatchGetContext ==
    \E chunks \in SeqsUpTo(RdTargets, MaxCtxBatch), agent_config \in RdConfigs,
       embed_ok \in BOOLEAN :
        LET r == BatchGetContext(main_db, databases, RegRubric, chunks,
                                 agent_config, embed_ok, faissTies)
        IN  /\ regRes = NoCall
            /\ regRes' = [op |-> "batch_get_context", chunks |-> chunks,
                          agent_config |-> agent_config, embed_ok |-> embed_ok,
                          contexts |-> r.contexts, err |-> r.err]
            /\ UNCHANGED <<main_db, databases, faissTies, db, dbRes, fctx, fcall, fout,
                           storeVars, runVars, cacheVars>>

\* the caller takes the outcome of the call
RdReturn ==
    /\ regRes # NoCall
    /\ regRes' = NoCall
    /\ UNCHANGED <<main_db, databases, faissTies, db, dbRes, fctx, fcall, fout,
                   storeVars, runVars, cacheVars>>

RdNext ==
    \/ RdCreateMain \/ RdCreateAgent
    \/ RdGetDatabase \/ RdSearch \/ RdSearchByText \/ RdGetChunkById
    \/ RdGetAllChunks \/ RdCallerMutatesList
    \/ RdGetContext \/ RdBatchGetContext
    \/ RdReturn

SpecRead == RdInit /\ [][RdNext]_vars

(***************************************************************************)
(* Properties of the formatter (checked under SpecFmt).                    *)
(***************************************************************************)
Formatted == fout # <<>>
FmtLimit == fcall.max_context_length
FmtFull == FullContext(fctx, fcall.agent_name)

\* "PARAGRAPH TO REVIEW (ID: <id>):" newline <text>, written out from the chunk
TargetSectionOf(chunk) ==
    <<"P","A","R","A","G","R","A","P","H"," ","T","O"," ","R","E","V","I","E","W"," ","(","I","D",":"," ">>
    \o chunk.paragraph_id \o <<")", ":", "\n">> \o chunk.text

\* C2: whatever max_context_length is, even one smaller than the target section,
\* the returned text ends with the target section: its header with the
\* paragraph_id, then the complete, unshortened chunk text.
C2_TargetKeptInFull ==
    Formatted => IsSuffix(TargetSectionOf(fctx.target_chunk), fout[1])

\* C2 witness: a call whose limit is smaller than the target section alone
C2_Witness ==
    /\ Formatted
    /\ FmtLimit < Len(TargetSectionOf(fctx.target_chunk))
    /\ fctx.retrieved_chunks # <<>>
    /\ Len(fctx.target_chunk.text) > 0
    /\ IsSuffix(TargetSectionOf(fctx.target_chunk), fout[1])

C4_NoticeWheneverTruncated ==
    (Formatted /\ Len(FmtFull) > FmtLimit) =>
        \E n \in 0..Len(FmtFull) :
            fout[1] = Take(FmtFull, n) \o TruncationNotice
                      \o NL \o TargetSectionOf(fctx.target_chunk)

\* C4 amended: when the assembled text is longer than max_context_length and
\* max_context_length - len(target_text) - 50 > 0, the output is the first that
\* many characters of the assembled text, then the notice, then the target
\* section; when nothing can be kept (that number is <= 0) the output is the
\* target section alone, with no notice.
C4_NoticeWhenPrefixKept ==
    (Formatted /\ Len(FmtFull) > FmtLimit) =>
        LET target_text == NL \o TargetSectionOf(fctx.target_chunk)
            keep == FmtLimit - Len(target_text) - TruncationBuffer
        IN  IF keep > 0
            THEN fout[1] = SubSeq(FmtFull, 1, keep) \o TruncationNotice \o target_text
            ELSE fout[1] = target_text /\ ~Occurs(TruncationNotice, fout[1])

\* C4 witness: a truncation that keeps a non-empty prefix and carries the notice
C4_Witness ==
    /\ Formatted
    /\ Len(FmtFull) > FmtLimit
    /\ FmtLimit - Len(TargetText(fctx)) - TruncationBuffer > 0
    /\ Occurs(TruncationNotice, fout[1])

(***************************************************************************)
(* Properties of the registry and of context assembly (checked under Spec).*)
(***************************************************************************)
ContextReturned == regRes.op = "get_context_for_chunk" /\ regRes.ctx # <<>>

\* C1: whatever the registry holds and whatever top_k and similarity_threshold
\* the agent asks for, no entry of retrieved_chunks in a returned context has
\* the paragraph_id of the chunk the context was built for.
C1_SelfExclusion ==
    ContextReturned =>
        \A i \in 1..Len(regRes.ctx[1].retrieved_chunks) :
            regRes.ctx[1].retrieved_chunks[i].chunk.paragraph_id
                # regRes.chunk.paragraph_id

\* C1 witness: the target is indexed in the main database, the search finds it
\* among the top_k, and other chunks are returned for it
C1_Witness ==
    /\ ContextReturned
    /\ \E i \in 1..Len(main_db[1].chunks) :
           main_db[1].chunks[i].paragraph_id = regRes.chunk.paragraph_id
    /\ \E r \in 1..Len(Search(main_db[1], EmbedText(regRes.chunk.text),
                              regRes.agent_config.top_k,
                              regRes.agent_config.similarity_threshold, faissTies)) :
           Search(main_db[1], EmbedText(regRes.chunk.text), regRes.agent_config.top_k,
                  regRes.agent_config.similarity_threshold, faissTies)[r].chunk.paragraph_id
               = regRes.chunk.paragraph_id
    /\ regRes.ctx[1].retrieved_chunks # <<>>

\* C5: get_database(None) gives the main index (and raises while there is none);
\* get_database(name) gives exactly the index stored under name; for a name with
\* no stored index it raises and gives nothing: neither the main index nor
\* another agent's index.
C5_NoSilentFallback ==
    regRes.op = "get_database" =>
        IF regRes.agent_name = <<>>
        THEN IF main_db = <<>>
             THEN regRes.ref = <<>> /\ regRes.err # NoErr
             ELSE regRes.ref = <<[slot |-> "main", name |-> <<>>]>> /\ regRes.err = NoErr
        ELSE IF regRes.agent_name[1] \in DOMAIN databases
             THEN /\ regRes.ref = <<[slot |-> "agent", name |-> regRes.agent_name]>>
                  /\ regRes.err = NoErr
             ELSE regRes.ref = <<>> /\ regRes.err # NoErr

\* C5 witness: a lookup of an unknown name in a registry that holds a main
\* index and another agent's index
C5_Witness ==
    /\ regRes.op = "get_database"
    /\ regRes.agent_name = <<A3>>
    /\ main_db # <<>>
    /\ DOMAIN databases # {}
    /\ regRes.err # NoErr

\* C6: the "main database not initialized" error and the configuration errors
\* (dimension or count mismatch, unsupported index type) are of another kind
\* than the unknown-agent error, so a handler that catches the unknown-agent
\* error lets them pass.
C6_DistinctErrorKinds ==
    (/\ regRes # NoCall
     /\ regRes.err \in {ErrMainNotInit, ErrDimMismatch, ErrCountMismatch, ErrUnsupportedIndex}) =>
        /\ regRes.err[1].kind # ErrNoAgentDb[1].kind
        /\ ~CaughtAsMissingKB(regRes.err)

\* C7: with a main index and no index registered under the agent's name, the
\* call returns a context whose agent_knowledge is empty and whose
\* retrieved_chunks is the main index's search result without the target.
C7_EmptyAgentKnowledge ==
    (/\ regRes.op = "get_context_for_chunk"
     /\ regRes.embed_ok
     /\ main_db # <<>>
     /\ regRes.agent_config.name \notin DOMAIN databases) =>
        /\ regRes.err = NoErr
        /\ regRes.ctx # <<>>
        /\ regRes.ctx[1].agent_knowledge = <<>>
        /\ regRes.ctx[1].target_chunk = regRes.chunk
        /\ regRes.ctx[1].retrieved_chunks =
               SelectSeq(Search(main_db[1], EmbedText(regRes.chunk.text),
                                regRes.agent_config.top_k,
                                regRes.agent_config.similarity_threshold, faissTies),
                         LAMBDA r : r.chunk.paragraph_id # regRes.chunk.paragraph_id)

\* C7 witness: an agent without a knowledge base gets main-document matches
\* while another agent has a knowledge base
C7_Witness ==
    /\ ContextReturned
    /\ regRes.agent_config.name \notin DOMAIN databases
    /\ DOMAIN databases # {}
    /\ regRes.ctx[1].retrieved_chunks # <<>>
    /\ regRes.ctx[1].agent_knowledge = <<>>

(***************************************************************************)
(* Properties of VectorDatabase (checked under SpecDb).                    *)
(***************************************************************************)
\* C8: an add_chunks call whose chunk count differs from the number of
\* embedding rows, or whose embedding width differs from embedding_dim, raises
\* and leaves index, chunks and chunk_metadata as they were.
C8_FailedAddIsAtomic ==
    (/\ dbRes.op = "add_chunks"
     /\ \/ dbRes.n_chunks # dbRes.n_rows
        \/ dbRes.width # dbRes.before.embedding_dim) =>
        /\ dbRes.err # NoErr
        /\ db.index = dbRes.before.index
        /\ db.chunks = dbRes.before.chunks
        /\ db.chunk_metadata = dbRes.before.chunk_metadata

\* C8 witness: a rejected call on a database that already holds chunks, for
\* each of the two reasons
C8_Witness ==
    /\ dbRes.op = "add_chunks"
    /\ dbRes.err = ErrDimMismatch
    /\ dbRes.n_chunks = dbRes.n_rows
    /\ dbRes.n_chunks > 0
    /\ Len(db.index) > 0

\* position (from 1) of a result's chunk in db.chunks; the chunks are distinct
PosOf(chunk) == CHOOSE i \in 1..Len(db.chunks) : db.chunks[i] = chunk
StoredScore(i, q) == FaissScore(db.index_type, db.index[i], NormalizeQuery(db.index_type, q))
\* i scores at least as high as j; a NaN row ranks below every other
ScoresAtLeast(i, j, q) ==
    \/ db.index[j].nan
    \/ ~db.index[i].nan /\ StoredScore(i, q) >= StoredScore(j, q)

\* C9: search returns exactly those of the min(k, size) highest-scoring stored
\* chunks whose score is >= similarity_threshold, each with its score.
C9_SearchResultSet ==
    dbRes.op = "search" =>
        LET n == Len(db.index)
            res == dbRes.results
        IN  \E top \in SUBSET (1..n) :
              /\ Cardinality(top) = Min(dbRes.k, n)
              /\ \A i \in top, j \in (1..n) \ top : ScoresAtLeast(i, j, dbRes.q)
              /\ \A r \in 1..Len(res) : res[r].chunk \in {db.chunks[i] : i \in top}
              /\ {PosOf(res[r].chunk) : r \in 1..Len(res)} =
                     {i \in top : ~db.index[i].nan /\ StoredScore(i, dbRes.q) >= dbRes.th}
              /\ \A r \in 1..Len(res) : res[r].sim = StoredScore(PosOf(res[r].chunk), dbRes.q)
              /\ \A r1, r2 \in 1..Len(res) : r1 # r2 => res[r1].chunk # res[r2].chunk

\* C10: the result list is ordered by score descending, equal scores by
\* ascending insertion position (and so is the same on every call).
C10_DescendingStableOrder ==
    dbRes.op = "search" =>
        \A r \in 1..(Len(dbRes.results) - 1) :
            \/ dbRes.results[r].sim > dbRes.results[r + 1].sim
            \/ /\ dbRes.results[r].sim = dbRes.results[r + 1].sim
               /\ PosOf(dbRes.results[r].chunk) < PosOf(dbRes.results[r + 1].chunk)

IsPrefixOf(p, s) == Len(p) <= Len(s) /\ SubSeq(s, 1, Len(p)) = p

SavedMetadata == JsonLoad(disk[1].metadata_json[1])

\* C12: a load from a saved directory whose metadata embedding_dim or index_type
\* differs from the receiving instance's raises, and the instance's index,
\* chunk list and chunk metadata are what they were before the call.
C12_LoadValidatesFirst ==
    (/\ dbRes.op = "load"
     /\ disk # <<>>
     /\ \/ SavedMetadata.embedding_dim # dbRes.before.embedding_dim
        \/ SavedMetadata.index_type # dbRes.before.index_type) =>
        /\ dbRes.err # NoErr
        /\ rcv.index = dbRes.before.index
        /\ rcv.chunks = dbRes.before.chunks
        /\ rcv.chunk_metadata = dbRes.before.chunk_metadata

\* C12 witness: a rejected load (index type differs, dimension agrees) into an
\* instance that holds a chunk, from a directory that holds other chunks
C12_Witness ==
    /\ dbRes.op = "load"
    /\ dbRes.err = ErrIndexTypeMismatch
    /\ dbRes.before.index # <<>>
    /\ disk # <<>>
    /\ SavedMetadata.chunk_count > 0
    /\ disk[1].chunks_pkl # <<>>
    /\ rcv.chunks # PickleLoad(disk[1].chunks_pkl[1])

\* C13: when the directory is what save wrote for db and the receiving instance
\* was freshly constructed with db's dimension and index type, the load
\* succeeds and every search (query, k, threshold) on the loaded instance
\* returns the same ordered list of (chunk, score) as on db.
C13_SaveLoadRoundTrip ==
    (/\ dbRes.op = "load"
     /\ disk = <<Save(db)>>
     /\ dbRes.before = NewVectorDatabase(db.embedding_dim, db.index_type)) =>
        /\ dbRes.err = NoErr
        /\ \A q \in Vecs, k \in 1..MaxK, th \in Thresholds :
               Search(rcv, q, k, th, faissTies) = Search(db, q, k, th, faissTies)

\* C13 witness: a round trip of a database built by two add_chunks calls whose
\* vectors differ, on which a search returns both chunks
C13_Witness ==
    /\ dbRes.op = "load"
    /\ dbRes.err = NoErr
    /\ disk = <<Save(db)>>
    /\ dbRes.before = NewVectorDatabase(db.embedding_dim, db.index_type)
    /\ Len(db.index) = 2
    /\ db.index[1] # db.index[2]
    /\ Len(Search(rcv, <<1000, 0>>, 2, 0 - 500, faissTies)) = 2

(***************************************************************************)
(* Properties of registry updates (checked under Spec).                    *)
(***************************************************************************)
\* C14: a create_agent_database(name, chunks, embeddings) call with an empty
\* chunk list leaves the whole registry unchanged; with a non-empty list (and
\* one embedding row per chunk) it makes get_database(name) return an index
\* that holds exactly those chunks, whether or not an index was stored under
\* the name before; the main index and every other agent's index stay as
\* they were.
C14_AgentDatabaseRegistration ==
    [][regRes'.op = "create_agent_database" =>
         /\ main_db' = main_db
         /\ \A a \in DOMAIN databases : a # regRes'.name =>
                a \in DOMAIN databases' /\ databases'[a] = databases[a]
         /\ IF regRes'.chunks = <<>>
            THEN databases' = databases
            ELSE regRes'.n_rows = Len(regRes'.chunks) =>
                    /\ DOMAIN databases' = DOMAIN databases \cup {regRes'.name}
                    /\ GetDatabase(main_db', databases', <<regRes'.name>>).err = NoErr
                    /\ LET got == Deref(main_db', databases',
                                        GetDatabase(main_db', databases', <<regRes'.name>>).ref[1])
                       IN  /\ got.chunks = regRes'.chunks
                           /\ Len(got.index) = Len(regRes'.chunks)
                           /\ Len(got.chunk_metadata) = Len(regRes'.chunks)]_vars

\* C14 witness: a knowledge base registered over an earlier one of the same
\* agent with other chunks, next to a main index and another agent's index
C14_Witness ==
    /\ regRes.op = "create_agent_database"
    /\ regRes.chunks # <<>>
    /\ regRes.err = NoErr
    /\ regRes.existed
    /\ regRes.name = A1
    /\ databases[A1].chunks = <<KBChunk(1)>>
    /\ A2 \in DOMAIN databases
    /\ main_db # <<>>

(***************************************************************************)
(* Properties of a review run (checked under SpecRun).                     *)
(***************************************************************************)
\* C15: a failure while one agent's knowledge base is built (file load,
\* embedding or index creation) does not make create_rag_system raise: it
\* returns with the main index built and with the knowledge base of every
\* agent whose own build did not fail.
C15_FailureIsolation ==
    /\ run.i >= 1 => run.err = NoErr /\ main_db # <<>>
    /\ RagSystemReturned(run) =>
           \A a \in DOMAIN kbFault : kbFault[a] = "none" => a \in DOMAIN databases

\* C16: every step that changes the registry (create_main_database,
\* create_agent_database) happens before any search has been issued and while
\* no review task is running, and the first search is issued only after
\* create_rag_system has returned.
C16_WritersBeforeReaders ==
    [][/\ (main_db' # main_db \/ databases' # databases) =>
              /\ ~searched
              /\ ~searched'
              /\ \A t \in DOMAIN tasks : tasks[t] \notin Active
       /\ (searched' /\ ~searched) => run.i > Len(RunAgents) /\ run.err = NoErr]_vars

\* C16 witness: two review tasks run at once, one of them has searched through
\* the tool, and the registry holds the main index and two knowledge bases
C16_Witness ==
    /\ searched
    /\ \E t, u \in DOMAIN tasks : t # u /\ tasks[t] = "used_tool" /\ tasks[u] = "running"
    /\ main_db # <<>>
    /\ DOMAIN databases = {A1, A2}
    /\ run.j = 2

(***************************************************************************)
(* Properties of the queries (checked under SpecRead).                     *)
(***************************************************************************)
QueryOps == {"search", "search_by_text", "get_chunk_by_id", "get_all_chunks",
             "get_database", "get_context_for_chunk", "batch_get_context"}

\* C17: a step of search, search_by_text, get_chunk_by_id, get_all_chunks,
\* get_database, get_context_for_chunk or batch_get_context, and a change the
\* caller makes to the list returned by get_all_chunks, leave the main index
\* and the name -> index mapping (sizes, vectors, chunk lists, metadata) as
\* they were.
C17_QueriesAreReadOnly ==
    [][regRes'.op \in QueryOps => main_db' = main_db /\ databases' = databases]_vars

\* C17 witness: the list returned by get_all_chunks of the main index has been
\* changed by the caller and differs from the chunk list of the index, in a
\* registry that also holds a knowledge base
C17_Witness ==
    /\ regRes.op = "get_all_chunks"
    /\ regRes.mutated
    /\ regRes.on = MainRef
    /\ regRes.list # main_db[1].chunks
    /\ Len(main_db[1].chunks) = Len(main_db[1].index)
    /\ DOMAIN databases # {}

\* C18: the list returned by batch_get_context(chunks, agent) is as long as
\* chunks, its i-th context has chunks[i] as target_chunk and is the context
\* get_context_for_chunk returns for chunks[i] alone; a chunk given twice gets
\* a context each time.
C18_BatchPreservesOrder ==
    (regRes.op = "batch_get_context" /\ regRes.err = NoErr) =>
        /\ Len(regRes.contexts) = Len(regRes.chunks)
        /\ \A i \in 1..Len(regRes.chunks) :
              /\ regRes.contexts[i].target_chunk = regRes.chunks[i]
              /\ <<regRes.contexts[i]>> =
                     GetContextForChunk(main_db, databases, RegRubric, regRes.chunks[i],
                                        regRes.agent_config, regRes.embed_ok, faissTies).ctx

\* C18 witness: a batch of two different chunks, and one of the same chunk twice
C18_Witness ==
    /\ regRes.op = "batch_get_context"
    /\ regRes.err = NoErr
    /\ Len(regRes.chunks) = 2
    /\ regRes.chunks[1] = regRes.chunks[2]
    /\ Len(regRes.contexts) = 2
    /\ regRes.contexts[1].retrieved_chunks # <<>>
    /\ regRes.contexts[1].agent_knowledge # <<>>

\* C20: when an index is registered under the agent's name, agent_knowledge of
\* the returned context is the result of searching that index with the
\* embedding of the chunk text, the agent's top_k and its similarity_threshold:
\* the query vector and parameters that give retrieved_chunks on the main index.
C20_SameQueryForKnowledge ==
    (/\ regRes.op = "get_context_for_chunk"
     /\ regRes.ctx # <<>>
     /\ regRes.agent_config.name \in DOMAIN databases) =>
        LET q == EmbedText(regRes.chunk.text)
            k == regRes.agent_config.top_k
            th == regRes.agent_config.similarity_threshold
        IN  /\ regRes.ctx[1].agent_knowledge =
                   Search(databases[regRes.agent_config.name], q, k, th, faissTies)
            /\ regRes.ctx[1].retrieved_chunks =
                   SelectSeq(Search(main_db[1], q, k, th, faissTies),
                             LAMBDA r : r.chunk.paragraph_id # regRes.chunk.paragraph_id)

\* C20 witness: the knowledge base holds two chunks and the agent's threshold
\* and top_k decide what is returned from it
C20_Witness ==
    /\ regRes.op = "get_context_for_chunk"
    /\ regRes.ctx # <<>>
    /\ regRes.agent_config.name \in DOMAIN databases
    /\ Len(databases[regRes.agent_config.name].chunks) = 2
    /\ regRes.agent_config.similarity_threshold = 900
    /\ Len(regRes.ctx[1].agent_knowledge) = 1
    /\ Len(Search(databases[regRes.agent_config.name], EmbedText(regRes.chunk.text),
                  2, 0, faissTies)) = 2
    /\ regRes.ctx[1].retrieved_chunks # <<>>

(***************************************************************************)
(* Order of the sections of the formatted context (checked under SpecFmt). *)
(***************************************************************************)
\* the pieces occur in s one after another, without overlap, from position from on
RECURSIVE InOrderFrom(_, _, _)
InOrderFrom(pieces, s, from) ==
    IF pieces = <<>> THEN TRUE
    ELSE LET p == Head(pieces)
             at == {i \in from..(Len(s) - Len(p) + 1) : SubSeq(s, i, i + Len(p) - 1) = p}
         IN  /\ at # {}
             /\ InOrderFrom(Tail(pieces), s, (CHOOSE i \in at : \A j \in at : i <= j) + Len(p))

\* C19: when the assembled text fits max_context_length, the output holds, in
\* this order, the rubric section (only when a rubric is present), the lines
\* of the first 3 entries of retrieved_chunks in their order, the lines of the
\* first 2 entries of agent_knowledge in their order, and at its end the target
\* header with the identifier and the full text; the line of a fourth main
\* match or of a third knowledge match does not occur.
C19_FixedSectionOrder ==
    (Formatted /\ Len(FmtFull) <= FmtLimit) =>
        LET out == fout[1]
            r == fctx.retrieved_chunks
            k == fctx.agent_knowledge
            rubricPieces == IF fctx.global_rubric # <<>> /\ fctx.global_rubric[1] # <<>>
                            THEN <<RubricHeader \o fctx.global_rubric[1]>> ELSE <<>>
            mainPieces == [i \in 1..Min(Len(r), 3) |-> MatchLine(r[i])]
            kbPieces == [i \in 1..Min(Len(k), 2) |-> MatchLine(k[i])]
        IN  /\ InOrderFrom(rubricPieces \o mainPieces \o kbPieces
                           \o <<TargetSectionOf(fctx.target_chunk)>>, out, 1)
            /\ IsSuffix(TargetSectionOf(fctx.target_chunk), out)
            /\ \A i \in 4..Len(r) : ~Occurs(MatchLine(r[i]), out)
            /\ \A i \in 3..Len(k) : ~Occurs(MatchLine(k[i]), out)
            /\ fctx.global_rubric = <<>> => ~Occurs(RubricHeader, out)
            /\ r = <<>> => ~Occurs(DocContextHeader, out)
            /\ k = <<>> => ~Occurs(KBHeaderPrefix, out)

\* C19 witness: an untruncated output for a context with a rubric, four main
\* matches and three knowledge matches
C19_Witness ==
    /\ Formatted
    /\ Len(FmtFull) <= FmtLimit
    /\ fout[1] = FmtFull
    /\ Len(fctx.retrieved_chunks) = 4
    /\ Len(fctx.agent_knowledge) = 3
    /\ fctx.global_rubric # <<>>
    /\ fctx.global_rubric[1] # <<>>
    /\ Occurs(MatchLine(fctx.retrieved_chunks[3]), fout[1])
    /\ Occurs(MatchLine(fctx.agent_knowledge[2]), fout[1])

(***************************************************************************)
(* Rebinding of the main index (checked under Spec).                       *)
(***************************************************************************)
\* C21: a create_main_database call that returns on a registry that already
\* has a main index makes get_database(None) return an index that holds
\* exactly the chunks of this call, in their order, and none of the chunks
\* that only the replaced index held; the name -> index mapping is as it was,
\* and there is one main index, not two.
C21_SecondMainReplaces ==
    [][(/\ regRes'.op = "create_main_database"
        /\ regRes'.err = NoErr
        /\ main_db # <<>>) =>
         /\ Len(main_db') = 1
         /\ GetDatabase(main_db', databases', <<>>).err = NoErr
         /\ LET got == Deref(main_db', databases',
                             GetDatabase(main_db', databases', <<>>).ref[1])
            IN  /\ got.chunks = regRes'.chunks
                /\ Len(got.index) = Len(regRes'.chunks)
                /\ Len(got.chunk_metadata) = Len(regRes'.chunks)
                /\ \A i \in 1..Len(main_db[1].chunks) :
                       (\A j \in 1..Len(regRes'.chunks) :
                            regRes'.chunks[j] # main_db[1].chunks[i]) =>
                       \A j \in 1..Len(got.chunks) : got.chunks[j] # main_db[1].chunks[i]
         /\ databases' = databases]_vars

\* C21 witness: a second create_main_database has returned; the replaced index
\* held two chunks, the new one holds one other chunk, and two knowledge bases
\* are registered
C21_Witness ==
    /\ regRes.op = "create_main_database"
    /\ regRes.err = NoErr
    /\ regRes.before # <<>>
    /\ Len(regRes.before[1].chunks) = 2
    /\ \A i \in 1..2 : regRes.before[1].chunks[i] # regRes.chunks[1]
    /\ Len(regRes.chunks) = 1
    /\ main_db[1].chunks = regRes.chunks
    /\ DOMAIN databases = {A1, A2}

(***************************************************************************)
(* Zero-norm vectors (checked under SpecDb).                               *)
(***************************************************************************)
ZeroRow(width) == [nan |-> FALSE, v |-> [i \in 1..width |-> 0]]

\* C22: under IndexFlatIP, an add_chunks call that returns has stored, for
\* every embedding row of norm 0, an all-zero vector (a defined value, not a
\* NaN); and a search with a query of norm 0 hands the query to the index as
\* it is and every result it returns has score 0: with a threshold <= 0 these
\* are min(k, size) results.
C22_ZeroNormIsSafe ==
    /\ (/\ dbRes.op = "add_chunks"
        /\ dbRes.err = NoErr
        /\ db.index_type = "IndexFlatIP") =>
           \A i \in dbRes.zero_rows :
               db.index[Len(dbRes.before.index) + i] = ZeroRow(db.embedding_dim)
    /\ (/\ dbRes.op = "search"
        /\ db.index_type = "IndexFlatIP"
        /\ Norm(dbRes.q) = 0) =>
           /\ NormalizeQuery(db.index_type, dbRes.q) = dbRes.q
           /\ \A r \in 1..Len(dbRes.results) : dbRes.results[r].sim = 0
           /\ dbRes.th <= 0 => Len(dbRes.results) = Min(dbRes.k, Len(db.index))

(***************************************************************************)
(* Error policy of get_context_for_chunk (checked under Spec).             *)
(***************************************************************************)
\* C23: when the embedding provider fails while get_context_for_chunk embeds
\* the chunk text, the call raises that failure and returns no context,
\* whatever the registry holds; a call that raises never returns a context;
\* and the one failure that is absorbed is the missing knowledge base: with a
\* working provider and a main index the call returns a context, and without
\* a main index it raises.
C23_EmbeddingFailurePropagates ==
    regRes.op = "get_context_for_chunk" =>
        /\ ~regRes.embed_ok => regRes.ctx = <<>> /\ regRes.err = ErrEmbedding
        /\ regRes.err # NoErr => regRes.ctx = <<>>
        /\ regRes.err = NoErr => regRes.ctx # <<>>
        /\ (regRes.embed_ok /\ main_db = <<>>) => regRes.err = ErrMainNotInit
        /\ (regRes.embed_ok /\ main_db # <<>>) => regRes.err = NoErr

\* C23 witness: the provider fails on a call for an indexed chunk whose agent
\* has a knowledge base, in a registry where the call would otherwise succeed
C23_Witness ==
    /\ regRes.op = "get_context_for_chunk"
    /\ ~regRes.embed_ok
    /\ regRes.err = ErrEmbedding
    /\ regRes.ctx = <<>>
    /\ main_db # <<>>
    /\ Len(main_db[1].chunks) = 2
    /\ regRes.chunk = main_db[1].chunks[1]
    /\ regRes.agent_config.name \in DOMAIN databases
    /\ GetContextForChunk(main_db, databases, RegRubric, regRes.chunk,
                          regRes.agent_config, TRUE, faissTies).err = NoErr

(***************************************************************************)
(* Properties of review_document (checked under SpecCrew).                 *)
(***************************************************************************)
\* review_document has returned its list
CrewReturned == crew.err = NoErr /\ run.j > Len(crew.agents)

\* the (agent, chunk) pairs, agents in crew order, chunks in input order
ExpectedPairs ==
    [p \in 1..(Len(crew.agents) * Len(RunDoc)) |->
        <<crew.agents[((p - 1) \div Len(RunDoc)) + 1].name,
          RunDoc[((p - 1) % Len(RunDoc)) + 1].paragraph_id>>]

ReviewedPairs ==
    [p \in 1..Len(crew.all_reviews) |->
        <<crew.all_reviews[p].agent_name, crew.all_reviews[p].paragraph_id>>]

\* C24: the list review_document returns holds the reviews agent after agent
\* in crew order and, within one agent, chunk after chunk in input order,
\* whatever the order in which the worker threads finish.
C24_ReviewsInAgentChunkOrder ==
    CrewReturned => ReviewedPairs = ExpectedPairs

\* C27: whatever the interleaving of the worker threads and whichever reviews
\* fail, the list review_document returns holds exactly one review for each
\* pair of a created agent and an input chunk, with that agent's name and that
\* chunk's paragraph_id; a review whose LLM call raises or answers unparsable
\* text results in the error review (scores {"error": 0.0}, overall_score 0,
\* confidence 0) of its pair; and review_document returns once the reviews of
\* all pairs are done (it ends earlier only by an exception of
\* batch_get_context).
C27_OneReviewPerPair ==
    /\ [](CrewReturned =>
            /\ Len(crew.all_reviews) = Len(crew.agents) * Len(RunDoc)
            /\ \A p \in DOMAIN ExpectedPairs :
                   Cardinality({q \in DOMAIN ReviewedPairs :
                                    ReviewedPairs[q] = ExpectedPairs[p]}) = 1)
    /\ [](\A t \in DOMAIN crew.results :
            (crew.results[t] # <<>>
             /\ crew.results[t][1].outcome \in {"bad_json", "kickoff_raises"}) =>
                crew.results[t][1].review =
                    [agent_name |-> crew.agents[run.j].name,
                     paragraph_id |-> RunDoc[t].paragraph_id,
                     scores |-> <<[criterion |-> "error", score |-> 0]>>,
                     overall_score |-> 0, confidence |-> 0])
    /\ [](\A t \in DOMAIN tasks :
            tasks[t] = "collected" =>
                Cardinality({q \in DOMAIN crew.reviews :
                                 crew.reviews[q] = crew.results[t][1].review}) = 1)
    /\ ((/\ tasks # <<>>
         /\ run.j = Len(crew.agents)
         /\ \A t \in DOMAIN tasks : tasks[t] \in {"done", "collected"}) ~> CrewReturned)
    /\ <>(CrewReturned \/ crew.err # NoErr)

\* C27 witness: review_document has returned for two agents with two workers;
\* the second chunk's review of the first agent was collected before the first
\* chunk's, and the list holds error reviews next to regular ones
C27_Witness ==
    /\ CrewReturned
    /\ Len(crew.agents) = 2
    /\ run.max_workers > 1
    /\ ReviewedPairs # ExpectedPairs
    /\ \E q \in DOMAIN crew.all_reviews : crew.all_reviews[q].confidence = 0
    /\ \E q \in DOMAIN crew.all_reviews : crew.all_reviews[q].confidence > 0

(***************************************************************************)
(* The worked example of the cosine index (checked under SpecScn).         *)
(***************************************************************************)
\* C25: with the vectors [1,0,0,0], [0,1,0,0], [0.9,0.1,0,0] added in this
\* order to a cosine index, a search for [1,0,0,0] with k = 2 and threshold
\* 0.5 returns exactly two results: the first chunk with a score of about 1.0,
\* then the third chunk with a score of about 0.994; the second chunk, whose
\* score is 0, is not returned.  "About" is within 0.002, the rounding of the
\* model's thousandths.
C25_CosineScenario ==
    (/\ dbRes.op = "search"
     /\ Len(db.index) = 3
     /\ dbRes.q = <<1000, 0, 0, 0>>
     /\ dbRes.k = 2
     /\ dbRes.th = 500) =>
        /\ Len(dbRes.results) = 2
        /\ dbRes.results[1].chunk = DocChunk(0)
        /\ Abs(dbRes.results[1].sim - 1000) <= 2
        /\ dbRes.results[2].chunk = DocChunk(2)
        /\ Abs(dbRes.results[2].sim - 994) <= 2
        /\ \A r \in 1..Len(dbRes.results) : dbRes.results[r].chunk # DocChunk(1)
        /\ FaissScore(db.index_type, db.index[2],
                      NormalizeQuery(db.index_type, dbRes.q)) = 0

\* C25 witness: the search of the example on the index holding the three chunks
C25_Witness ==
    /\ dbRes.op = "search"
    /\ db.index_type = "IndexFlatIP"
    /\ db.chunks = <<DocChunk(0), DocChunk(1), DocChunk(2)>>
    /\ dbRes.q = <<1000, 0, 0, 0>>
    /\ dbRes.k = 2
    /\ dbRes.th = 500
    /\ Len(dbRes.results) = 2

(***************************************************************************)
(* Agreement of index and chunk list (checked under SpecStore).            *)
(***************************************************************************)
\* index, chunks and chunk_metadata of d have the same length and the
\* metadata at each position is that of the chunk at that position
IndexAgrees(d) ==
    /\ Len(d.index) = Len(d.chunks)
    /\ Len(d.chunk_metadata) = Len(d.chunks)
    /\ \A i \in 1..Len(d.chunks) :
           d.chunk_metadata[i].paragraph_id = d.chunks[i].paragraph_id

\* d1 is d0 with the n chunks and the stored form of their n rows appended
AppendedInOrder(d0, d1, chunks, rows) ==
    /\ d1.chunks = d0.chunks \o chunks
    /\ Len(d1.index) = Len(d0.index) + Len(chunks)
    /\ Len(d1.chunk_metadata) = Len(d0.chunk_metadata) + Len(chunks)
    /\ \A i \in 1..Len(chunks) :
           /\ d1.index[Len(d0.index) + i] =
                  (IF d0.index_type = "IndexFlatIP" THEN NormalizeRow(rows[i])
                   ELSE RawRow(rows[i]))
           /\ d1.chunk_metadata[Len(d0.chunk_metadata) + i].paragraph_id
                  = chunks[i].paragraph_id
    /\ SubSeq(d1.index, 1, Len(d0.index)) = d0.index
    /\ SubSeq(d1.chunk_metadata, 1, Len(d0.chunk_metadata)) = d0.chunk_metadata

\* C26: after any sequence of add_chunks and load calls, failed ones included,
\* the index holds as many vectors as there are chunks and metadata entries;
\* an add_chunks call of n chunks that returns appends the n chunks, their n
\* vectors and their n metadata entries at the same positions, in call order;
\* and a load either leaves index, chunks and metadata as they were or replaces
\* the three together by what the directory holds, so that the vector at
\* position i stays the one of chunks[i].
C26_IndexMatchesChunks ==
    /\ [](IndexAgrees(db) /\ IndexAgrees(rcv))
    /\ [][(dbRes'.op = "add_chunks" /\ dbRes'.err = NoErr) =>
            IF dbRes'.on = "db"
            THEN AppendedInOrder(db, db', dbRes'.chunks, dbRes'.rows) /\ rcv' = rcv
            ELSE AppendedInOrder(rcv, rcv', dbRes'.chunks, dbRes'.rows) /\ db' = db]_vars
    /\ [][dbRes'.op = "load" =>
            \/ /\ rcv'.index = rcv.index
               /\ rcv'.chunks = rcv.chunks
               /\ rcv'.chunk_metadata = rcv.chunk_metadata
            \/ /\ dbRes'.err = NoErr
               /\ disk[1].index_faiss # <<>>
               /\ disk[1].chunks_pkl # <<>>
               /\ rcv'.index = ReadIndex(disk[1].index_faiss[1])
               /\ rcv'.chunks = PickleLoad(disk[1].chunks_pkl[1])
               /\ IndexAgrees(rcv')]_vars

(***************************************************************************)
(* The kept prefix and the target section (checked under SpecFmt).         *)
(***************************************************************************)
\* positions at which p occurs in s
OccurrencesOf(p, s) == {i \in 1..(Len(s) - Len(p) + 1) : SubSeq(s, i, i + Len(p) - 1) = p}

\* length of what the output holds in front of the notice and the target section
KeptLength == Len(fout[1]) - Len(TruncationNotice) - Len(NL \o TargetSectionOf(fctx.target_chunk))

\* C28: when the assembled text is longer than max_context_length and a
\* non-empty prefix of it is kept, the output is that prefix, the notice and
\* the target section; the prefix ends before the position at which the target
\* section starts in the assembled text; and the target section occurs in the
\* output exactly once, behind the notice.  When the assembled text is not
\* longer than max_context_length the output is the assembled text, without
\* the notice.
C28_PrefixStopsBeforeTarget ==
    Formatted =>
        LET target == TargetSectionOf(fctx.target_chunk)
            out == fout[1]
        IN  IF Len(FmtFull) <= FmtLimit
            THEN out = FmtFull /\ ~Occurs(TruncationNotice, out)
            ELSE KeptLength >= 1 =>
                    /\ out = SubSeq(FmtFull, 1, KeptLength) \o TruncationNotice \o NL \o target
                    /\ KeptLength < Len(FmtFull) - Len(target) + 1
                    /\ OccurrencesOf(target, FmtFull) = {Len(FmtFull) - Len(target) + 1}
                    /\ OccurrencesOf(target, out) = {Len(out) - Len(target) + 1}
                    /\ OccurrencesOf(TruncationNotice, out) = {KeptLength + 1}

\* C28 witness: a truncation that keeps a non-empty prefix in front of a
\* target with a long text, the assembled text being less than 50 characters
\* longer than the limit
C28_Witness ==
    /\ Formatted
    /\ Len(FmtFull) > FmtLimit
    /\ Len(FmtFull) < FmtLimit + TruncationBuffer
    /\ KeptLength >= 1
    /\ fctx.target_chunk = LongChunk
    /\ fout[1] = SubSeq(FmtFull, 1, KeptLength) \o TruncationNotice \o TargetText(fctx)

(***************************************************************************)
(* Self-exclusion and the top-k cut (checked under Spec).                  *)
(***************************************************************************)
\* what main_db.search returns for the call recorded in regRes
MainSearchResult ==
    Search(main_db[1], EmbedText(regRes.chunk.text), regRes.agent_config.top_k,
           regRes.agent_config.similarity_threshold, faissTies)

TargetAmong(results) ==
    \E i \in 1..Len(results) : results[i].chunk.paragraph_id = regRes.chunk.paragraph_id

\* C29: retrieved_chunks of a returned context is the main index's search
\* result for the agent's top_k and similarity_threshold, without the entries
\* that carry the target's paragraph_id and otherwise in the same order; it has
\* at most top_k entries, and at most top_k - 1 when the target is among the
\* search result.
C29_SelfExcludedAfterCut ==
    (regRes.op = "get_context_for_chunk" /\ regRes.ctx # <<>>) =>
        LET retrieved_chunks == regRes.ctx[1].retrieved_chunks
        IN  /\ retrieved_chunks =
                   SelectSeq(MainSearchResult,
                             LAMBDA r : r.chunk.paragraph_id # regRes.chunk.paragraph_id)
            /\ Len(retrieved_chunks) <= regRes.agent_config.top_k
            /\ TargetAmong(MainSearchResult) =>
                   Len(retrieved_chunks) <= regRes.agent_config.top_k - 1
            /\ \A i \in 1..Len(retrieved_chunks) :
                   retrieved_chunks[i].chunk.paragraph_id # regRes.chunk.paragraph_id

\* C29 witness: the target is among the top_k matches, the index holds a
\* further match that passes the threshold, and the context has top_k - 1
\* entries
C29_Witness ==
    /\ regRes.op = "get_context_for_chunk"
    /\ regRes.ctx # <<>>
    /\ TargetAmong(MainSearchResult)
    /\ Len(MainSearchResult) = regRes.agent_config.top_k
    /\ Len(Search(main_db[1], EmbedText(regRes.chunk.text), regRes.agent_config.top_k + 1,
                  regRes.agent_config.similarity_threshold, faissTies))
           = regRes.agent_config.top_k + 1
    /\ Len(regRes.ctx[1].retrieved_chunks) = regRes.agent_config.top_k - 1

(***************************************************************************)
(* The embedding cache (checked under SpecCache).                          *)
(***************************************************************************)
\* the cache file found by the call was written for the call's model and
\* holds the text of every requested chunk
CacheCovers(file, model, chunks) ==
    /\ file # <<>>
    /\ file[1].ok
    /\ file[1].model = model
    /\ \A i \in 1..Len(chunks) :
          \E j \in 1..Len(file[1].texts) : file[1].texts[j] = chunks[i].text

\* C30: a create_embeddings call with a cache directory and a non-empty chunk
\* list takes its vectors from the cache file only when the file was written
\* for the same model identifier and holds every requested text, and then
\* returns one vector per chunk, in chunk order, each the vector stored with
\* that chunk's text; in every other case the call returns the recomputed
\* embeddings of all chunks and, the write succeeding, leaves a cache file
\* that holds the texts and vectors of this call.
C30_CacheServesStoredVectors ==
    (/\ cacheRes.op = "create_embeddings"
     /\ cacheRes.use_cache
     /\ cacheRes.chunks # <<>>) =>
        LET chunks == cacheRes.chunks
            file == cacheRes.before
            after == cacheFiles[CacheFileName(cacheRes.model)]
        IN  /\ cacheRes.source = "cache" =>
                /\ CacheCovers(file, cacheRes.model, chunks)
                /\ Len(cacheRes.embeddings) = Len(chunks)
                /\ \A i \in 1..Len(chunks) :
                      \E j \in 1..Len(file[1].texts) :
                          /\ file[1].texts[j] = chunks[i].text
                          /\ file[1].embeddings[j] = cacheRes.embeddings[i]
            /\ ~CacheCovers(file, cacheRes.model, chunks) =>
                /\ cacheRes.source = "computed"
                /\ cacheRes.err = NoErr
                /\ cacheRes.embeddings =
                       [i \in 1..Len(chunks) |-> EmbedTextBy(cacheRes.model, chunks[i].text)]
                /\ cacheRes.write_ok =>
                       /\ after # <<>>
                       /\ after[1].ok
                       /\ after[1].model = cacheRes.model
                       /\ after[1].texts = [i \in 1..Len(chunks) |-> chunks[i].text]
                       /\ after[1].embeddings = cacheRes.embeddings
====
